---- MODULE Spec2Model ----
(***************************************************************************)
(* The archival pipeline of skool-downloader: downloadCourse (index.ts),   *)
(* its scheduler runConcurrent, the lesson task, Downloader.downloadAsset  *)
(* and downloadVideo (downloader.ts), the single-slot index gate           *)
(* indexLimit, regenerateIndex (regenerate-index.ts) and the shutdown      *)
(* handler.  One process runs one downloadCourse; every await of the code  *)
(* is a point where another task, pass or signal handler may run.          *)
(***************************************************************************)
EXTENDS Integers, Sequences, FiniteSets, TLC

\* Number of lessons of the course tree in a course run.
NumLessons == 3
\* Largest concurrency bound K a course run is started with.
MaxWorkers == 2

VARIABLES
    concurrency,      \* K, the value of normalizeConcurrency(options.concurrency)
    lessonData,       \* the remote course: per lesson what extractLessonData returns
    courseImageUrl,   \* the remote cover: "none", or the content behind the URL
    run,              \* "first" or "second" run of the tool over the same directory
    alive,            \* FALSE once the process has exited
    main,             \* position of downloadCourse
    index,            \* runConcurrent: the shared cursor (0-based, as in the code)
    workers,          \* runConcurrent: per worker (or the for loop) its position
    task,             \* per lesson task: position and the locals hasVideo, resourcesHtml
    dl,               \* per destination path: position of the downloadAsset call on it
    completedLessons,
    failedLessons,
    events,           \* callbacks invoked: onLessonStart / onLessonComplete / onLessonError
    files,            \* disk, per lesson directory
    assets,           \* disk, per image / attachment / cover path
    course,           \* disk, course directory: .course.json, index.html and their .tmp
    queue,            \* indexLimit: passes enqueued and not yet started
    pass,             \* regenerateIndex passes in progress: the gated one, one per signal
    signals,          \* signals whose once-handler has fired
    calls,            \* this run: video tool invocations, HTTP GETs, what failed
    prev,             \* what the previous run left: its manifests and how it went
    input,            \* the argument of the function applied on its own, if any
    output            \* what the function returned

vars == <<concurrency, lessonData, courseImageUrl, run, alive, main, index, workers,
          task, dl, completedLessons, failedLessons, events, files, assets, course,
          queue, pass, signals, calls, prev, input, output>>

----------------------------------------------------------------------------
(* The course and the disk *)

Lessons == 1..Len(lessonData)

\* What is behind a remote URL: nothing to fetch, a zero-length body, or data.
Remote == {"none", "empty", "data"}

\* A file on disk: absent, zero size, non-zero size but incomplete, complete.
NonZero(f) == f \in {"partial", "full"}

\* Destination paths of downloadAsset.
CoverPath == <<"cover", 0>>
ImagePath(l) == <<"image", l>>
ResourcePath(l) == <<"resource", l>>
Paths == {CoverPath} \cup {ImagePath(l) : l \in Lessons} \cup {ResourcePath(l) : l \in Lessons}

RemoteAt(p) ==
    IF p = CoverPath THEN courseImageUrl
    ELSE IF p[1] = "image" THEN lessonData[p[2]].image
    ELSE lessonData[p[2]].resource

SigNames == {"SIGINT", "SIGTERM"}
PassIds == {"gate"} \cup SigNames

NoTask == [pc |-> "unstarted", hasVideo |-> FALSE, resourcesHtml |-> 0]
\* A file whose content matters: no file, or the file with its content.
NoFile == <<>>
File(content) == <<content>>
Exists(f) == f # NoFile
Content(f) == f[1]
\* A file whose write has not finished, or in which two writers' bytes are mixed.
Truncated(content) == <<content, "truncated">>
Whole(f) == Len(f) = 1

NoFiles == [dir |-> FALSE, video |-> "absent", page |-> NoFile,
            tmp |-> NoFile, manifest |-> NoFile]
NoCourse ==
    [dir |-> FALSE, tmp |-> NoFile, manifest |-> NoFile, indexTmp |-> NoFile, index |-> NoFile]
NoPass == [state |-> "idle", snap |-> {}, raced |-> FALSE]

\* In-memory state of a fresh process, over course tree d and cover c.
FreshAt(d, pc) ==
    /\ alive = TRUE
    /\ main = [pc |-> pc, courseImagePath |-> FALSE, loop |-> 0]
    /\ index = 0
    /\ workers = [w \in 1..MaxWorkers |-> [state |-> "none", current |-> 0]]
    /\ task = [l \in 1..Len(d) |-> NoTask]
    /\ completedLessons = 0
    /\ failedLessons = 0
    /\ events = [started |-> {}, completed |-> {}, errored |-> {}]
    /\ queue = 0
    /\ pass = [p \in PassIds |-> NoPass]
    /\ signals = {}
    /\ dl = [p \in {CoverPath} \cup {ImagePath(l) : l \in 1..Len(d)}
                   \cup {ResourcePath(l) : l \in 1..Len(d)} |-> "idle"]
    /\ calls = [tool |-> [l \in 1..Len(d) |-> 0], http |-> 0, faults |-> {}]

\* downloadCourse with a parsed, non-empty course tree, about to create the output
\* directory.
Fresh(d) == FreshAt(d, "start")

EmptyDisk(d) ==
    /\ files = [l \in 1..Len(d) |-> NoFiles]
    /\ assets = [p \in {CoverPath} \cup {ImagePath(l) : l \in 1..Len(d)}
                       \cup {ResourcePath(l) : l \in 1..Len(d)} |-> "absent"]
    /\ course = NoCourse

----------------------------------------------------------------------------
(* Downloader.downloadAsset(url, outputPath), one call per destination path *)

\* No function is applied on its own.
NoCall == input = <<>> /\ output = <<>>

configVars == <<concurrency, lessonData, courseImageUrl, run, prev, input, output>>
schedVars == <<index, workers>>
lessonVars == <<task, completedLessons, failedLessons, events, files>>
indexVars == <<queue, pass, signals>>

\* AssetOpen without the existence check: every call requests the url.
AssetOpenAlways(p) ==
    /\ alive
    /\ dl[p] = "ensureDir"
    /\ dl' = [dl EXCEPT ![p] = "request"]
    /\ assets' = [assets EXCEPT ![p] = "empty"]
    /\ calls' = [calls EXCEPT !.http = @ + 1]
    /\ UNCHANGED <<configVars, alive, main, schedVars, lessonVars, course, indexVars>>

\* After `await fs.ensureDir(dirname)`: the existence check; a file of non-zero size
\* ends the call, otherwise the write stream is created on the final path and the
\* GET is issued.
AssetOpen(p) ==
    /\ alive
    /\ dl[p] = "ensureDir"
    /\ IF NonZero(assets[p])
         THEN /\ dl' = [dl EXCEPT ![p] = "resolved"]
              /\ UNCHANGED <<assets, calls>>
         ELSE /\ dl' = [dl EXCEPT ![p] = "request"]
              /\ assets' = [assets EXCEPT ![p] = "empty"]
              /\ calls' = [calls EXCEPT !.http = @ + 1]
    /\ UNCHANGED <<configVars, alive, main, schedVars, lessonVars, course, indexVars>>

\* `await axios(...)` resolves with the response stream, which is piped to the writer.
AssetResponse(p) ==
    /\ alive
    /\ dl[p] = "request"
    /\ dl' = [dl EXCEPT ![p] = "streaming"]
    /\ UNCHANGED <<configVars, alive, main, schedVars, lessonVars, assets, course,
                   indexVars, calls>>

\* The pipe writes the first bytes of the body to the final path.
AssetChunk(p) ==
    /\ alive
    /\ dl[p] = "streaming"
    /\ RemoteAt(p) = "data"
    /\ assets[p] = "empty"
    /\ assets' = [assets EXCEPT ![p] = "partial"]
    /\ UNCHANGED <<configVars, alive, main, schedVars, lessonVars, dl, course,
                   indexVars, calls>>

\* The writer's 'finish': the whole body is on disk and the promise resolves.
AssetFinish(p) ==
    /\ alive
    /\ dl[p] = "streaming"
    /\ RemoteAt(p) = "data" => assets[p] = "partial"
    /\ assets' = [assets EXCEPT ![p] = IF RemoteAt(p) = "data" THEN "full" ELSE @]
    /\ dl' = [dl EXCEPT ![p] = "resolved"]
    /\ UNCHANGED <<configVars, alive, main, schedVars, lessonVars, course,
                   indexVars, calls>>

\* The call rejects: ensureDir throws, axios rejects (status, timeout), or the
\* writer emits 'error'.  Whatever is at the final path stays there.
AssetReject(p) ==
    /\ alive
    /\ dl[p] \in {"ensureDir", "request", "streaming"}
    /\ dl' = [dl EXCEPT ![p] = "rejected"]
    /\ calls' = [calls EXCEPT !.faults = @ \cup {p}]
    /\ UNCHANGED <<configVars, alive, main, schedVars, lessonVars, assets, course,
                   indexVars>>

Settled(p) == dl[p] \in {"resolved", "rejected"}

----------------------------------------------------------------------------
(* The lesson task: tasks[i].run of downloadCourse *)

\* A task has reached a terminal state: completed, or failed and reported.
Terminal(l) == task[l].pc \in {"complete", "failed"}

\* The promise of tasks[i]() has settled; it rejects only if an exception leaves
\* the task.
TaskSettled(l) == Terminal(l) \/ task[l].pc = "rejected"

\* What can fail in a run: a downloadAsset call (named by its path), a
\* downloadVideo call, and an await that reaches the task's outer catch.
VideoFault(l) == <<"video", l>>
FatalFault(l) == <<"fatal", l>>

\* The task's promise settles; its locals are gone.
Settle(outcome) == [pc |-> outcome, hasVideo |-> FALSE, resourcesHtml |-> 0]

\* The task's synchronous start: onLessonStart, then `await fs.ensureDir(lessonDir)`.
Started(t) == [t EXCEPT !.pc = "ensureDir"]

\* if (lessonData.resources && lessonData.resources.length > 0) ... else the page.
EnterResources(l, t) ==
    [t EXCEPT !.pc = IF lessonData[l].resource # "none" THEN "resources" ELSE "writeHtml"]

\* EnterVideo without the test of lessonData.videoLink.
EnterVideoAlways(l, t) == [t EXCEPT !.pc = "video"]

\* if (lessonData.videoLink) ... else the resources.
EnterVideo(l, t) ==
    IF lessonData[l].videoLink THEN [t EXCEPT !.pc = "video"] ELSE EnterResources(l, t)

\* The LessonManifest the task builds (title, indices and directory names are
\* functions of the lesson and stand behind lessonId).
LessonManifest(l) ==
    [lessonId |-> l, hasVideo |-> task[l].hasVideo,
     resourcesCount |-> task[l].resourcesHtml, updatedAt |-> run]

EnsureLessonDir(l) ==
    /\ alive
    /\ task[l].pc = "ensureDir"
    /\ files' = [files EXCEPT ![l].dir = TRUE]
    /\ task' = [task EXCEPT ![l].pc = "extract"]
    /\ UNCHANGED <<configVars, alive, main, schedVars, dl, completedLessons,
                   failedLessons, events, assets, course, indexVars, calls>>

\* scraper.extractLessonData returns; localizeImages starts one downloadAsset per
\* image of the content, or returns at once when there is none.
ExtractLessonData(l) ==
    /\ alive
    /\ task[l].pc = "extract"
    /\ IF lessonData[l].image # "none"
         THEN /\ task' = [task EXCEPT ![l].pc = "images"]
              /\ dl' = [dl EXCEPT ![ImagePath(l)] = "ensureDir"]
         ELSE /\ task' = [task EXCEPT ![l] = EnterVideo(l, @)]
              /\ UNCHANGED dl
    /\ UNCHANGED <<configVars, alive, main, schedVars, completedLessons,
                   failedLessons, events, files, assets, course, indexVars, calls>>

\* localizeImages: Promise.all over the downloads, each with its own catch, so a
\* rejected download only logs a warning.
ImagesSettled(l) ==
    /\ alive
    /\ task[l].pc = "images"
    /\ Settled(ImagePath(l))
    /\ dl' = [dl EXCEPT ![ImagePath(l)] = "idle"]
    /\ task' = [task EXCEPT ![l] = EnterVideo(l, @)]
    /\ UNCHANGED <<configVars, alive, main, schedVars, completedLessons,
                   failedLessons, events, files, assets, course, indexVars, calls>>

\* DownloadVideo without the existence check: the tool is invoked every time.
DownloadVideoAlways(l) ==
    /\ alive
    /\ task[l].pc = "video"
    /\ task' = [task EXCEPT ![l].pc = "videoExec"]
    /\ calls' = [calls EXCEPT !.tool[l] = @ + 1]
    /\ UNCHANGED <<configVars, alive, main, schedVars, dl, completedLessons,
                   failedLessons, events, files, assets, course, indexVars>>

\* downloadVideo after init and ensureDir: an existing video.mp4 of non-zero size
\* ends the call, otherwise the external tool is invoked.
DownloadVideo(l) ==
    /\ alive
    /\ task[l].pc = "video"
    /\ IF NonZero(files[l].video)
         THEN /\ task' = [task EXCEPT ![l] = EnterResources(l, [@ EXCEPT !.hasVideo = TRUE])]
              /\ UNCHANGED calls
         ELSE /\ task' = [task EXCEPT ![l].pc = "videoExec"]
              /\ calls' = [calls EXCEPT !.tool[l] = @ + 1]
    /\ UNCHANGED <<configVars, alive, main, schedVars, dl, completedLessons,
                   failedLessons, events, files, assets, course, indexVars>>

\* ytDlp.execPromise resolves: video.mp4 is in the lesson directory.
VideoToolSucceeds(l) ==
    /\ alive
    /\ task[l].pc = "videoExec"
    /\ files' = [files EXCEPT ![l].video = "full"]
    /\ task' = [task EXCEPT ![l] = EnterResources(l, [@ EXCEPT !.hasVideo = TRUE])]
    /\ UNCHANGED <<configVars, alive, main, schedVars, dl, completedLessons,
                   failedLessons, events, assets, course, indexVars, calls>>

\* DownloadVideoThrows without the inner try/catch: the video failure reaches the
\* outer catch and fails the lesson.
DownloadVideoThrowsFatal(l) ==
    /\ alive
    /\ task[l].pc \in {"video", "videoExec"}
    /\ failedLessons' = failedLessons + 1
    /\ events' = [events EXCEPT !.errored = @ \cup {l}]
    /\ task' = [task EXCEPT ![l] = Settle("failed")]
    /\ calls' = [calls EXCEPT !.faults = @ \cup {VideoFault(l)}]
    /\ UNCHANGED <<configVars, alive, main, schedVars, dl, completedLessons, files,
                   assets, course, indexVars>>

\* downloadVideo throws (init or ensureDir fails, or the tool exits non-zero): the
\* inner catch logs a warning and hasVideo stays false.
DownloadVideoThrows(l) ==
    /\ alive
    /\ task[l].pc \in {"video", "videoExec"}
    /\ task' = [task EXCEPT ![l] = EnterResources(l, @)]
    /\ calls' = [calls EXCEPT !.faults = @ \cup {VideoFault(l)}]
    /\ UNCHANGED <<configVars, alive, main, schedVars, dl, completedLessons,
                   failedLessons, events, files, assets, course, indexVars>>

\* After `await fs.ensureDir(resourcesDir)`, the resource task: an attachment that
\* exists with non-zero size is linked without a download, otherwise downloadAsset.
StartResources(l) ==
    /\ alive
    /\ task[l].pc = "resources"
    /\ dl[ResourcePath(l)] = "idle"
    /\ dl' = [dl EXCEPT ![ResourcePath(l)] =
                 IF NonZero(assets[ResourcePath(l)]) THEN "resolved" ELSE "ensureDir"]
    /\ UNCHANGED <<configVars, alive, main, schedVars, lessonVars, assets, course,
                   indexVars, calls>>

\* ResourcesSettled without the catch in the resource task: a rejected download
\* rejects Promise.all and fails the lesson.
ResourcesSettledRethrows(l) ==
    /\ alive
    /\ task[l].pc = "resources"
    /\ Settled(ResourcePath(l))
    /\ dl' = [dl EXCEPT ![ResourcePath(l)] = "idle"]
    /\ IF dl[ResourcePath(l)] = "rejected"
         THEN /\ failedLessons' = failedLessons + 1
              /\ events' = [events EXCEPT !.errored = @ \cup {l}]
              /\ task' = [task EXCEPT ![l] = Settle("failed")]
         ELSE /\ task' = [task EXCEPT ![l].pc = "writeHtml", ![l].resourcesHtml = 1]
              /\ UNCHANGED <<failedLessons, events>>
    /\ UNCHANGED <<configVars, alive, main, schedVars, completedLessons, files,
                   assets, course, indexVars, calls>>

\* Promise.all(resTasks): a resolved download yields a link, a rejected one null.
ResourcesSettled(l) ==
    /\ alive
    /\ task[l].pc = "resources"
    /\ Settled(ResourcePath(l))
    /\ task' = [task EXCEPT ![l].pc = "writeHtml",
                            ![l].resourcesHtml = IF dl[ResourcePath(l)] = "resolved" THEN 1 ELSE 0]
    /\ dl' = [dl EXCEPT ![ResourcePath(l)] = "idle"]
    /\ UNCHANGED <<configVars, alive, main, schedVars, completedLessons,
                   failedLessons, events, files, assets, course, indexVars, calls>>

\* WriteLessonPage with the page write left out: the task goes on to the manifest.
WriteLessonPageSkipped(l) ==
    /\ alive
    /\ task[l].pc = "writeHtml"
    /\ task' = [task EXCEPT ![l].pc = "manifestTmp"]
    /\ UNCHANGED <<configVars, alive, main, schedVars, dl, completedLessons,
                   failedLessons, events, files, assets, course, indexVars, calls>>

\* fs.writeFile(lessonDir/index.html): the page has the video element iff hasVideo.
WriteLessonPage(l) ==
    /\ alive
    /\ task[l].pc = "writeHtml"
    /\ files' = [files EXCEPT ![l].page =
                    File([video |-> task[l].hasVideo, resources |-> task[l].resourcesHtml])]
    /\ task' = [task EXCEPT ![l].pc = "manifestTmp"]
    /\ UNCHANGED <<configVars, alive, main, schedVars, dl, completedLessons,
                   failedLessons, events, assets, course, indexVars, calls>>

\* writeAtomicJson, first half: fs.writeJson(lesson.json.tmp).
WriteLessonManifestTmp(l) ==
    /\ alive
    /\ task[l].pc = "manifestTmp"
    /\ files' = [files EXCEPT ![l].tmp = File(LessonManifest(l))]
    /\ task' = [task EXCEPT ![l].pc = "manifestMove"]
    /\ UNCHANGED <<configVars, alive, main, schedVars, dl, completedLessons,
                   failedLessons, events, assets, course, indexVars, calls>>

\* writeAtomicJson, second half: fs.move(tmp, lesson.json); then the task counts
\* the lesson, calls onLessonComplete and enqueues an index pass without awaiting it.
MoveLessonManifest(l) ==
    /\ alive
    /\ task[l].pc = "manifestMove"
    /\ files' = [files EXCEPT ![l].manifest = files[l].tmp, ![l].tmp = NoFile]
    /\ completedLessons' = completedLessons + 1
    /\ events' = [events EXCEPT !.completed = @ \cup {l}]
    /\ queue' = queue + 1
    /\ task' = [task EXCEPT ![l] = Settle("complete")]
    /\ UNCHANGED <<configVars, alive, main, schedVars, dl, failedLessons, assets,
                   course, pass, signals, calls>>

\* Awaits of the task whose rejection reaches the outer catch.
FatalPoints == {"ensureDir", "extract", "resources", "writeHtml", "manifestTmp", "manifestMove"}

\* LessonThrows without the outer try/catch: the exception leaves the task.
LessonThrowsUncaught(l) ==
    /\ alive
    /\ task[l].pc \in FatalPoints
    /\ task[l].pc = "resources" => dl[ResourcePath(l)] = "idle"
    /\ task' = [task EXCEPT ![l] = Settle("rejected")]
    /\ calls' = [calls EXCEPT !.faults = @ \cup {FatalFault(l)}]
    /\ UNCHANGED <<configVars, alive, main, schedVars, dl, completedLessons,
                   failedLessons, events, files, assets, course, indexVars>>

\* LessonThrows with the index pass enqueued in a finally: a failed lesson
\* enqueues a pass as a completed one does.
LessonThrowsEnqueues(l) ==
    /\ alive
    /\ task[l].pc \in FatalPoints
    /\ task[l].pc = "resources" => dl[ResourcePath(l)] = "idle"
    /\ failedLessons' = failedLessons + 1
    /\ events' = [events EXCEPT !.errored = @ \cup {l}]
    /\ task' = [task EXCEPT ![l] = Settle("failed")]
    /\ calls' = [calls EXCEPT !.faults = @ \cup {FatalFault(l)}]
    /\ queue' = queue + 1
    /\ UNCHANGED <<configVars, alive, main, schedVars, dl, completedLessons, files,
                   assets, course, pass, signals>>

\* The outer catch: failedLessons += 1, onLessonError, logger.error; the task's
\* promise resolves.
LessonThrows(l) ==
    /\ alive
    /\ task[l].pc \in FatalPoints
    /\ task[l].pc = "resources" => dl[ResourcePath(l)] = "idle"
    /\ failedLessons' = failedLessons + 1
    /\ events' = [events EXCEPT !.errored = @ \cup {l}]
    /\ task' = [task EXCEPT ![l] = Settle("failed")]
    /\ calls' = [calls EXCEPT !.faults = @ \cup {FatalFault(l)}]
    /\ UNCHANGED <<configVars, alive, main, schedVars, dl, completedLessons, files,
                   assets, course, indexVars>>

----------------------------------------------------------------------------
(* downloadCourse up to the scheduler *)

\* The CourseManifest (courseName, groupName and the module list are functions of
\* the course tree).
CourseManifest == [courseImagePath |-> main.courseImagePath, updatedAt |-> run]

\* fs.ensureDir(baseOutputDir); activeOutputDir is set and the shutdown handlers are
\* registered; onCourseStart; the cover download starts if there is a cover URL.
StartDownload ==
    /\ alive
    /\ main.pc = "start"
    /\ IF courseImageUrl # "none"
         THEN /\ main' = [main EXCEPT !.pc = "cover"]
              /\ dl' = [dl EXCEPT ![CoverPath] = "ensureDir"]
         ELSE /\ main' = [main EXCEPT !.pc = "courseTmp"]
              /\ UNCHANGED dl
    /\ course' = [course EXCEPT !.dir = TRUE]
    /\ UNCHANGED <<configVars, alive, schedVars, lessonVars, assets, indexVars, calls>>

\* The try around the cover download: courseImagePath is set only if it resolved.
CoverSettled ==
    /\ alive
    /\ main.pc = "cover"
    /\ Settled(CoverPath)
    /\ main' = [main EXCEPT !.pc = "courseTmp",
                            !.courseImagePath = (dl[CoverPath] = "resolved")]
    /\ dl' = [dl EXCEPT ![CoverPath] = "idle"]
    /\ UNCHANGED <<configVars, alive, schedVars, lessonVars, assets, course,
                   indexVars, calls>>

\* writeAtomicJson(.course.json), first half.
WriteCourseManifestTmp ==
    /\ alive
    /\ main.pc = "courseTmp"
    /\ course' = [course EXCEPT !.tmp = File(CourseManifest)]
    /\ main' = [main EXCEPT !.pc = "courseMove"]
    /\ UNCHANGED <<configVars, alive, schedVars, lessonVars, dl, assets, indexVars, calls>>

\* MoveCourseManifest without the fs.move: .course.json.tmp stays where it was
\* written and downloadCourse goes on.
MoveCourseManifestSkipped ==
    /\ alive
    /\ main.pc = "courseMove"
    /\ main' = [main EXCEPT !.pc = "moduleDirs"]
    /\ UNCHANGED <<configVars, alive, schedVars, lessonVars, dl, assets, course,
                   indexVars, calls>>

\* writeAtomicJson(.course.json), second half; then `await fs.ensureDir(moduleDir)`.
MoveCourseManifest ==
    /\ alive
    /\ main.pc = "courseMove"
    /\ course' = [course EXCEPT !.manifest = course.tmp, !.tmp = NoFile]
    /\ main' = [main EXCEPT !.pc = "moduleDirs"]
    /\ UNCHANGED <<configVars, alive, schedVars, lessonVars, dl, assets, indexVars, calls>>

----------------------------------------------------------------------------
(* runConcurrent(tasks, concurrency) *)

Min(a, b) == IF a <= b THEN a ELSE b

workerCount == Min(concurrency, Len(lessonData))

\* The call itself, run to its first await.  With concurrency <= 1 or one task the
\* for loop starts the first task; otherwise every worker claims a task in turn
\* (current = index; index += 1) and starts it.
RunConcurrent ==
    /\ alive
    /\ main.pc = "moduleDirs"
    /\ IF concurrency <= 1 \/ Len(lessonData) = 1
         THEN /\ main' = [main EXCEPT !.pc = "sequential", !.loop = 1]
              /\ task' = [task EXCEPT ![1] = Started(@)]
              /\ events' = [events EXCEPT !.started = @ \cup {1}]
              /\ UNCHANGED <<index, workers>>
         ELSE /\ main' = [main EXCEPT !.pc = "pool"]
              /\ index' = workerCount
              /\ workers' = [w \in DOMAIN workers |->
                                IF w <= workerCount
                                  THEN [state |-> "running", current |-> w]
                                  ELSE workers[w]]
              /\ task' = [l \in Lessons |->
                             IF l <= workerCount THEN Started(task[l]) ELSE task[l]]
              /\ events' = [events EXCEPT !.started = @ \cup (1..workerCount)]
    /\ UNCHANGED <<configVars, alive, dl, completedLessons, failedLessons, files,
                   assets, course, indexVars, calls>>

\* SequentialNext with task() called and not awaited: the loop goes on to the
\* next task at once.
SequentialNextNoAwait ==
    /\ alive
    /\ main.pc = "sequential"
    /\ IF task[main.loop].pc = "rejected"
         THEN /\ main' = [main EXCEPT !.pc = "rejected"]
              /\ UNCHANGED <<task, events, queue>>
         ELSE IF main.loop < Len(lessonData)
         THEN /\ main' = [main EXCEPT !.loop = @ + 1]
              /\ task' = [task EXCEPT ![main.loop + 1] = Started(@)]
              /\ events' = [events EXCEPT !.started = @ \cup {main.loop + 1}]
              /\ UNCHANGED queue
         ELSE /\ main' = [main EXCEPT !.pc = "finalIndex"]
              /\ queue' = queue + 1
              /\ UNCHANGED <<task, events>>
    /\ UNCHANGED <<configVars, alive, schedVars, dl, completedLessons, failedLessons,
                   files, assets, course, pass, signals, calls>>

\* The for loop: the awaited task has settled; the next one starts, or the loop
\* ends and runConcurrent returns (downloadCourse enqueues the final index pass and
\* awaits it).  A rejected task ends the loop and rejects downloadCourse.
SequentialNext ==
    /\ alive
    /\ main.pc = "sequential"
    /\ TaskSettled(main.loop)
    /\ IF task[main.loop].pc = "rejected"
         THEN /\ main' = [main EXCEPT !.pc = "rejected"]
              /\ UNCHANGED <<task, events, queue>>
         ELSE IF main.loop < Len(lessonData)
         THEN /\ main' = [main EXCEPT !.loop = @ + 1]
              /\ task' = [task EXCEPT ![main.loop + 1] = Started(@)]
              /\ events' = [events EXCEPT !.started = @ \cup {main.loop + 1}]
              /\ UNCHANGED queue
         ELSE /\ main' = [main EXCEPT !.pc = "finalIndex"]
              /\ queue' = queue + 1
              /\ UNCHANGED <<task, events>>
    /\ UNCHANGED <<configVars, alive, schedVars, dl, completedLessons, failedLessons,
                   files, assets, course, pass, signals, calls>>

\* WorkerClaim without the await on the worker's current task.
WorkerClaimNoAwait(w) ==
    /\ alive
    /\ main.pc = "pool"
    /\ workers[w].state = "running"
    /\ index' = index + 1
    /\ IF index >= Len(lessonData)
         THEN /\ workers' = [workers EXCEPT ![w].state = "returned"]
              /\ UNCHANGED <<task, events>>
         ELSE /\ workers' = [workers EXCEPT ![w].current = index + 1]
              /\ task' = [task EXCEPT ![index + 1] = Started(@)]
              /\ events' = [events EXCEPT !.started = @ \cup {index + 1}]
    /\ UNCHANGED <<configVars, alive, main, dl, completedLessons, failedLessons,
                   files, assets, course, indexVars, calls>>

\* WorkerClaim with the shared cursor read and not advanced (no index += 1
\* before the task starts): the next claim reads the same index.
WorkerClaimSameIndex(w) ==
    /\ alive
    /\ main.pc = "pool"
    /\ workers[w].state = "running"
    /\ TaskSettled(workers[w].current)
    /\ IF task[workers[w].current].pc = "rejected"
         THEN /\ workers' = [workers EXCEPT ![w].state = "rejected"]
              /\ UNCHANGED <<index, task, events>>
         ELSE IF index >= Len(lessonData)
         THEN /\ index' = index + 1
              /\ workers' = [workers EXCEPT ![w].state = "returned"]
              /\ UNCHANGED <<task, events>>
         ELSE /\ index' = index
              /\ workers' = [workers EXCEPT ![w].current = index + 1]
              /\ task' = [task EXCEPT ![index + 1] = Started(@)]
              /\ events' = [events EXCEPT !.started = @ \cup {index + 1}]
    /\ UNCHANGED <<configVars, alive, main, dl, completedLessons, failedLessons,
                   files, assets, course, indexVars, calls>>

\* A pool worker: the awaited task has settled; current = index; index += 1; the
\* worker returns if current >= tasks.length, else it starts tasks[current].
WorkerClaim(w) ==
    /\ alive
    /\ main.pc = "pool"
    /\ workers[w].state = "running"
    /\ TaskSettled(workers[w].current)
    /\ IF task[workers[w].current].pc = "rejected"
         THEN /\ workers' = [workers EXCEPT ![w].state = "rejected"]
              /\ UNCHANGED <<index, task, events>>
         ELSE IF index >= Len(lessonData)
         THEN /\ index' = index + 1
              /\ workers' = [workers EXCEPT ![w].state = "returned"]
              /\ UNCHANGED <<task, events>>
         ELSE /\ index' = index + 1
              /\ workers' = [workers EXCEPT ![w].current = index + 1]
              /\ task' = [task EXCEPT ![index + 1] = Started(@)]
              /\ events' = [events EXCEPT !.started = @ \cup {index + 1}]
    /\ UNCHANGED <<configVars, alive, main, dl, completedLessons, failedLessons,
                   files, assets, course, indexVars, calls>>

\* PoolSettles with Promise.race in place of Promise.all: the first worker to
\* return resolves runConcurrent.
PoolSettlesOnFirst ==
    /\ alive
    /\ main.pc = "pool"
    /\ \E w \in 1..workerCount : workers[w].state = "returned"
    /\ main' = [main EXCEPT !.pc = "finalIndex"]
    /\ queue' = queue + 1
    /\ UNCHANGED <<configVars, alive, schedVars, lessonVars, dl, assets, course,
                   pass, signals, calls>>

\* Promise.all(workers) settles: it resolves when every worker has returned, and
\* downloadCourse enqueues the final index pass and awaits it; it rejects as soon
\* as one worker rejects, and downloadCourse rejects with it.
PoolSettles ==
    /\ alive
    /\ main.pc = "pool"
    /\ LET rejected == \E w \in 1..workerCount : workers[w].state = "rejected" IN
       /\ rejected \/ \A w \in 1..workerCount : workers[w].state = "returned"
       /\ main' = [main EXCEPT !.pc = IF rejected THEN "rejected" ELSE "finalIndex"]
       /\ queue' = IF rejected THEN queue ELSE queue + 1
    /\ UNCHANGED <<configVars, alive, schedVars, lessonVars, dl, assets, course,
                   pass, signals, calls>>

----------------------------------------------------------------------------
(* indexLimit = pLimit(1), regenerateIndex and the shutdown handler *)

\* What a pass finds when it scans the course directory: the lessons whose
\* directory holds an index.html.
Snapshot == {l \in Lessons : Exists(files[l].page)}

InProgress(p) == pass[p].state # "idle"

\* pLimit(1) admits the next queued pass when none is active.
GateAdmits ==
    /\ alive
    /\ queue > 0
    /\ ~InProgress("gate")
    /\ queue' = queue - 1
    /\ pass' = [pass EXCEPT !["gate"] = [NoPass EXCEPT !.state = "scanned", !.snap = Snapshot]]
    /\ UNCHANGED <<configVars, alive, main, schedVars, lessonVars, dl, assets,
                   course, signals, calls>>

\* handleShutdown: process.once fires for the signal; with an active output
\* directory it calls regenerateIndex directly.
Signal(sig) ==
    /\ alive
    /\ main.pc \notin {"start", "returned"}
    /\ sig \notin signals
    /\ signals' = signals \cup {sig}
    /\ pass' = [pass EXCEPT ![sig] = [NoPass EXCEPT !.state = "scanned", !.snap = Snapshot]]
    /\ UNCHANGED <<configVars, alive, main, schedVars, lessonVars, dl, assets,
                   course, queue, calls>>

\* A pass whose fs.writeFile is under way; its descriptor is on the file that was
\* opened at index.html.tmp, wherever a rename has taken that file since.
Writing(p) == pass[p].state \in {"writing", "writingMoved", "writingGone"}

\* writeAtomicHtml, fs.writeFile(index.html.tmp) begins: the file at the tmp path
\* is opened with truncation and the first bytes are written.  Nothing keeps two
\* passes from writing it at once.
PassOpensTmp(p) ==
    /\ alive
    /\ pass[p].state = "scanned"
    /\ course' = [course EXCEPT !.indexTmp = Truncated(pass[p].snap)]
    /\ pass' = [q \in PassIds |->
                  IF q = p
                    THEN [pass[p] EXCEPT !.state = "writing",
                                         !.raced = \E r \in PassIds : pass[r].state = "writing"]
                    ELSE IF pass[q].state = "writing"
                           THEN [pass[q] EXCEPT !.raced = TRUE]
                           ELSE pass[q]]
    /\ UNCHANGED <<configVars, alive, main, schedVars, lessonVars, dl, assets,
                   queue, signals, calls>>

\* fs.writeFile ends: the opened file holds the page of this pass, unless another
\* pass wrote the same file meanwhile, when the bytes of the two may be mixed.
PassWritesTmp(p) ==
    /\ alive
    /\ Writing(p)
    /\ \E whole \in (IF pass[p].raced THEN BOOLEAN ELSE {TRUE}) :
          LET written == IF whole THEN File(pass[p].snap) ELSE Truncated(pass[p].snap) IN
          course' = CASE pass[p].state = "writing" -> [course EXCEPT !.indexTmp = written]
                      [] pass[p].state = "writingMoved" -> [course EXCEPT !.index = written]
                      [] OTHER -> course
    /\ pass' = [pass EXCEPT ![p] = [state |-> "tmp", snap |-> {}, raced |-> FALSE]]
    /\ UNCHANGED <<configVars, alive, main, schedVars, lessonVars, dl, assets,
                   queue, signals, calls>>

\* fs.move(index.html.tmp, index.html): the file now at the tmp path replaces the
\* index; the move throws if the tmp path holds no file.
MovedIndex ==
    IF Exists(course.indexTmp)
      THEN [course EXCEPT !.index = course.indexTmp, !.indexTmp = NoFile]
      ELSE course

\* What the move of pass p does to the other passes: a pass still writing the
\* moved file now writes index.html, and one writing the replaced file writes a
\* file that has no name any more.
AfterMove(p) ==
    [q \in PassIds |->
        IF q = p THEN NoPass
        ELSE IF ~Exists(course.indexTmp) THEN pass[q]
        ELSE IF pass[q].state = "writing" THEN [pass[q] EXCEPT !.state = "writingMoved"]
        ELSE IF pass[q].state = "writingMoved" THEN [pass[q] EXCEPT !.state = "writingGone"]
        ELSE pass[q]]

\* GatedPassEnds with downloadCourse not awaiting its own pass: it returns when
\* any gated pass ends after the scheduler has returned.
GatedPassEndsAnyPass ==
    /\ alive
    /\ pass["gate"].state = "tmp"
    /\ Exists(course.indexTmp)
    /\ course' = MovedIndex
    /\ pass' = AfterMove("gate")
    /\ main' = IF main.pc = "finalIndex"
                 THEN [main EXCEPT !.pc = "returned"]
                 ELSE main
    /\ UNCHANGED <<configVars, alive, schedVars, lessonVars, dl, assets, queue,
                   signals, calls>>

\* The gated pass ends; pLimit frees the slot.  If it was the final pass (the last
\* one enqueued), downloadCourse builds the summary and returns.
GatedPassEnds ==
    /\ alive
    /\ pass["gate"].state = "tmp"
    /\ Exists(course.indexTmp)
    /\ course' = MovedIndex
    /\ pass' = AfterMove("gate")
    /\ main' = IF main.pc = "finalIndex" /\ queue = 0
                 THEN [main EXCEPT !.pc = "returned"]
                 ELSE main
    /\ UNCHANGED <<configVars, alive, schedVars, lessonVars, dl, assets, queue,
                   signals, calls>>

\* A regenerateIndex pass that throws.
IndexFault == <<"index", 0>>

\* The promise of the gated pass rejects.  downloadCourse awaits only the final
\* pass and rejects with it; the promise of a pass enqueued by a lesson task is
\* dropped, so its rejection is unhandled: the runtime ends the process or only
\* warns, as it is configured.
GatedPassRejects ==
    /\ pass' = [pass EXCEPT !["gate"] = NoPass]
    /\ calls' = [calls EXCEPT !.faults = @ \cup {IndexFault}]
    /\ IF main.pc = "finalIndex" /\ queue = 0
         THEN /\ main' = [main EXCEPT !.pc = "rejected"]
              /\ UNCHANGED alive
         ELSE /\ alive' \in BOOLEAN
              /\ UNCHANGED main

\* regenerateIndex throws in the gated pass: a readdir of the scan,
\* fs.writeFile or fs.move fails (no space, no permission, too many open files).
GatedPassThrows ==
    /\ alive
    /\ InProgress("gate")
    /\ GatedPassRejects
    /\ UNCHANGED <<configVars, schedVars, lessonVars, dl, assets, course, queue,
                   signals>>

\* The shutdown pass ends, resolved or caught; finally process.exit(0).
ShutdownPassEnds(sig) ==
    /\ alive
    /\ pass[sig].state = "tmp"
    /\ course' = MovedIndex
    /\ pass' = AfterMove(sig)
    /\ alive' = FALSE
    /\ UNCHANGED <<configVars, main, schedVars, lessonVars, dl, assets, queue,
                   signals, calls>>

----------------------------------------------------------------------------
(* The process ends and the tool is run again over the same directory *)

\* The process is killed from outside (SIGKILL, a crash, power loss): nothing of
\* the program runs any more and the disk stays as it is.
Kill ==
    /\ alive
    /\ main.pc \notin {"start", "returned"}
    /\ alive' = FALSE
    /\ UNCHANGED <<configVars, main, schedVars, lessonVars, dl, assets, course,
                   indexVars, calls>>

\* What a run leaves for the next one: the manifests on disk, whether the run
\* returned, what failed, and the lessons left with a video but no manifest.
Legacy ==
    [lessons |-> [l \in Lessons |-> files[l].manifest],
     course |-> course.manifest,
     returned |-> alive /\ main.pc = "returned",
     failed |-> failedLessons,
     faultless |-> calls.faults = {},
     videoOnly |-> {l \in Lessons : NonZero(files[l].video) /\ ~Exists(files[l].manifest)}]

NoPrev ==
    [lessons |-> <<>>, course |-> NoFile, returned |-> FALSE, failed |-> 0,
     faultless |-> FALSE, videoOnly |-> {}]

\* The second run: a new process, downloadCourse on the same URL and directory.
Rerun ==
    /\ run = "first"
    /\ ~alive \/ main.pc = "returned"
    /\ run' = "second"
    /\ prev' = Legacy
    /\ alive' = TRUE
    /\ main' = [pc |-> "start", courseImagePath |-> FALSE, loop |-> 0]
    /\ index' = 0
    /\ workers' = [w \in DOMAIN workers |-> [state |-> "none", current |-> 0]]
    /\ task' = [l \in Lessons |-> NoTask]
    /\ dl' = [p \in DOMAIN dl |-> "idle"]
    /\ completedLessons' = 0
    /\ failedLessons' = 0
    /\ events' = [started |-> {}, completed |-> {}, errored |-> {}]
    /\ queue' = 0
    /\ pass' = [p \in PassIds |-> NoPass]
    /\ signals' = {}
    /\ calls' = [tool |-> [l \in Lessons |-> 0], http |-> 0, faults |-> {}]
    /\ UNCHANGED <<concurrency, lessonData, courseImageUrl, files, assets, course,
                   input, output>>

----------------------------------------------------------------------------
(* Spec: a course run of NumLessons lessons into an empty directory, with      *)
(* concurrency 1..MaxWorkers, in which no signal arrives.  One lesson of the   *)
(* course has a video, the others are text lessons.                            *)

VideoLesson == [videoLink |-> TRUE, image |-> "none", resource |-> "none"]
TextLesson == [videoLink |-> FALSE, image |-> "none", resource |-> "none"]

Init ==
    /\ concurrency \in 1..MaxWorkers
    /\ lessonData = [l \in 1..NumLessons |-> IF l = 2 THEN VideoLesson ELSE TextLesson]
    /\ courseImageUrl = "none"
    /\ run = "first"
    /\ prev = NoPrev
    /\ Fresh(lessonData)
    /\ EmptyDisk(lessonData)
    /\ NoCall

LessonStep(l) ==
    \/ EnsureLessonDir(l)
    \/ ExtractLessonData(l)
    \/ DownloadVideo(l)
    \/ VideoToolSucceeds(l)
    \/ DownloadVideoThrows(l)
    \/ WriteLessonPage(l)
    \/ WriteLessonManifestTmp(l)
    \/ MoveLessonManifest(l)
    \/ LessonThrows(l)

CourseStep ==
    \/ StartDownload
    \/ WriteCourseManifestTmp
    \/ MoveCourseManifest
    \/ RunConcurrent

PoolStep ==
    \/ \E w \in 1..MaxWorkers : WorkerClaim(w)
    \/ PoolSettles

GateStep ==
    \/ GateAdmits
    \/ PassOpensTmp("gate")
    \/ PassWritesTmp("gate")
    \/ GatedPassEnds

Next ==
    \/ CourseStep
    \/ SequentialNext
    \/ PoolStep
    \/ \E l \in Lessons : LessonStep(l)
    \/ GateStep

Spec == Init /\ [][Next]_vars

----------------------------------------------------------------------------
(* SpecShutdown: a run of a two-lesson course in which SIGINT and SIGTERM may   *)
(* arrive at any moment after the handlers are registered.                      *)

InitShutdown ==
    /\ concurrency \in {1, 2}
    /\ lessonData = <<VideoLesson, TextLesson>>
    /\ courseImageUrl = "none"
    /\ run = "first"
    /\ prev = NoPrev
    /\ Fresh(lessonData)
    /\ EmptyDisk(lessonData)
    /\ NoCall

ShutdownStep ==
    \E sig \in SigNames :
        \/ Signal(sig)
        \/ PassOpensTmp(sig)
        \/ PassWritesTmp(sig)
        \/ ShutdownPassEnds(sig)

NextShutdown ==
    \/ Next
    \/ ShutdownStep

SpecShutdown == InitShutdown /\ [][NextShutdown]_vars

----------------------------------------------------------------------------
(* SpecIndexFault: a run of a two-lesson course in which a regenerateIndex pass  *)
(* may throw.                                                                   *)

NextIndexFault ==
    \/ Next
    \/ GatedPassThrows

SpecIndexFault == InitShutdown /\ [][NextIndexFault]_vars

----------------------------------------------------------------------------
(* SpecRerun: single-lesson runs (the for loop of runConcurrent) of a lesson    *)
(* with an image, a video and an attachment, with or without a cover; the process *)
(* may be killed, and the tool is run a second time over what the first left.   *)

RerunLessons ==
    [videoLink : {TRUE}, image : {"data"}, resource : {"data", "empty"}]

InitRerun ==
    /\ concurrency = 1
    /\ \E d \in RerunLessons : lessonData = <<d>>
    /\ courseImageUrl \in {"none", "data"}
    /\ run = "first"
    /\ prev = NoPrev
    /\ Fresh(lessonData)
    /\ EmptyDisk(lessonData)
    /\ NoCall

AssetStep(p) ==
    \/ AssetOpen(p)
    \/ AssetResponse(p)
    \/ AssetChunk(p)
    \/ AssetFinish(p)
    \/ AssetReject(p)

NextRerun ==
    \/ CourseStep
    \/ CoverSettled
    \/ SequentialNext
    \/ \E l \in Lessons :
          \/ LessonStep(l)
          \/ ImagesSettled(l)
          \/ StartResources(l)
          \/ ResourcesSettled(l)
    \/ \E p \in Paths : AssetStep(p)
    \/ GateStep
    \/ Kill
    \/ Rerun

SpecRerun == InitRerun /\ [][NextRerun]_vars

----------------------------------------------------------------------------
(* SpecStructural: downloadCourse from the parse of the classroom page: the     *)
(* course tree is empty or has two lessons, and a lesson id may be requested.   *)

\* The lesson ids of the parsed tree, and the lesson behind each id.
TreeIds == {<<>>, <<1, 2>>}
LessonOf(id) == IF id = 1 THEN VideoLesson ELSE TextLesson

\* options.lessonId / the md parameter of the URL; 0 stands for none.
TargetIds == 0..3

\* The tree downloadCourse goes on with: all modules, or the found lesson alone.
Narrowed(tree, target) ==
    IF target = 0
      THEN [i \in DOMAIN tree |-> LessonOf(tree[i])]
      ELSE <<LessonOf(target)>>

\* `modules.length === 0`, or the requested lesson is in no module.
StructuralError(tree, target) ==
    \/ Len(tree) = 0
    \/ target # 0 /\ ~\E i \in DOMAIN tree : tree[i] = target

InitStructural ==
    /\ concurrency \in {1, 2}
    /\ lessonData = <<>>
    /\ courseImageUrl = "none"
    /\ run = "first"
    /\ prev = NoPrev
    /\ FreshAt(lessonData, "parse")
    /\ EmptyDisk(lessonData)
    /\ input \in [tree : TreeIds, target : TargetIds]
    /\ output = <<>>

\* downloadCourse goes on with the tree lessonData': the state of Fresh and
\* EmptyDisk for it.
GoesOn ==
    /\ main' = [main EXCEPT !.pc = "start"]
    /\ task' = [l \in 1..Len(lessonData') |-> NoTask]
    /\ dl' = [p \in {CoverPath} \cup {ImagePath(l) : l \in 1..Len(lessonData')}
                    \cup {ResourcePath(l) : l \in 1..Len(lessonData')} |-> "idle"]
    /\ calls' = [tool |-> [l \in 1..Len(lessonData') |-> 0], http |-> 0, faults |-> {}]
    /\ files' = [l \in 1..Len(lessonData') |-> NoFiles]
    /\ assets' = [p \in {CoverPath} \cup {ImagePath(l) : l \in 1..Len(lessonData')}
                        \cup {ResourcePath(l) : l \in 1..Len(lessonData')} |-> "absent"]
    /\ UNCHANGED <<alive, schedVars, completedLessons, failedLessons, events, course,
                   indexVars>>

\* ParseClassroom without the two checks: downloadCourse goes on with whatever
\* tree it has.
ParseClassroomUnchecked ==
    /\ alive
    /\ main.pc = "parse"
    /\ UNCHANGED <<concurrency, courseImageUrl, run, prev, input, output>>
    /\ lessonData' = IF StructuralError(input.tree, input.target)
                       THEN <<>> ELSE Narrowed(input.tree, input.target)
    /\ GoesOn

\* scraper.parseClassroom returns; downloadCourse throws on a structural error,
\* before anything is created, and otherwise goes on with the narrowed tree.
ParseClassroom ==
    /\ alive
    /\ main.pc = "parse"
    /\ UNCHANGED <<concurrency, courseImageUrl, run, prev, input, output>>
    /\ IF StructuralError(input.tree, input.target)
         THEN /\ main' = [main EXCEPT !.pc = "rejected"]
              /\ UNCHANGED <<lessonData, alive, schedVars, lessonVars, dl, assets,
                             course, indexVars, calls>>
         ELSE /\ lessonData' = Narrowed(input.tree, input.target)
              /\ GoesOn

NextStructural ==
    \/ ParseClassroom
    \/ Next

SpecStructural == InitStructural /\ [][NextStructural]_vars

----------------------------------------------------------------------------
(* SpecOrder: regenerateIndex applied to a course directory of up to MaxModules *)
(* module directories, each empty, with a lesson page, or with a lesson page    *)
(* and its lesson.json, read by readdir in any order, with or without the       *)
(* assets directory and the .course.json.                                       *)

\* The state the download leaves idle while a function is applied on its own.
Idle ==
    /\ concurrency = 1
    /\ lessonData = <<TextLesson>>
    /\ courseImageUrl = "none"
    /\ run = "first"
    /\ prev = NoPrev
    /\ Fresh(lessonData)
    /\ EmptyDisk(lessonData)

\* The sequences that hold every element of S once.
Orders(S) ==
    {f \in [1..Cardinality(S) -> S] : \A i, j \in DOMAIN f : i # j => f[i] # f[j]}

\* `parseInt(name.split('-')[0]) || 999`; prefix 0 stands for a name without number.
NoNumber == 999
DirNumber(e) == IF e.prefix = 0 THEN NoNumber ELSE e.prefix

\* `order.get(...) ?? 9999`
NoOrder == 9999

\* a.k < b.k for the keys <<first, second>> of a two-level comparator.
KeyLess(a, b) == a[1] < b[1] \/ (a[1] = b[1] /\ a[2] < b[2])

\* Array.prototype.sort, which is stable: x goes behind the last element whose key
\* is not greater than its own.
RECURSIVE Insert(_, _, _)
Insert(sorted, x, key) ==
    IF sorted = <<>> THEN <<x>>
    ELSE IF KeyLess(key[x], key[sorted[Len(sorted)]])
           THEN Append(Insert(SubSeq(sorted, 1, Len(sorted) - 1), x, key), sorted[Len(sorted)])
           ELSE Append(sorted, x)

RECURSIVE SortFrom(_, _, _)
SortFrom(s, n, key) ==
    IF n = 0 THEN <<>> ELSE Insert(SortFrom(s, n - 1, key), s[n], key)

\* A sort that leaves the array as it is.
Unsorted(s, key) == s

\* s sorted by key, a function from the elements of s to their keys.
SortBy(s, key) == SortFrom(s, Len(s), key)

\* The directory entries sorted by the number in their name.
ModuleDirs(entries) ==
    LET dirs == {entries[i] : i \in DOMAIN entries} IN
    SortBy(entries, [e \in dirs |-> <<DirNumber(e), 0>>])

\* The section of a module directory: its index is the moduleIndex of a lesson
\* manifest if there is one, else the number of the directory.  The record has a
\* title, lessons and an index, and no moduleDirName.
Section(e) ==
    [title |-> e.module,
     lessons |-> e.lessons,
     index |-> IF e.lessons = "manifest" /\ e.moduleIndex # 0
                 THEN e.moduleIndex ELSE DirNumber(e)]

\* The position the .course.json gives a section, looked up under the section's
\* moduleDirName.
OrderOf(a, modules) ==
    IF "moduleDirName" \in DOMAIN a /\ \E i \in DOMAIN modules : modules[i].moduleDirName = a.moduleDirName
      THEN CHOOSE i \in DOMAIN modules : modules[i].moduleDirName = a.moduleDirName
      ELSE NoOrder

\* regenerateIndex: the module sections of the page, in page order.
CourseInfo(disk) ==
    LET moduleDirs == ModuleDirs(disk.entries)
        withLessons == SelectSeq(moduleDirs, LAMBDA e : e.lessons # "empty")
        sections == [i \in DOMAIN withLessons |-> Section(withLessons[i])]
        all == {sections[i] : i \in DOMAIN sections}
    IN  IF Len(disk.modules) > 0
          THEN SortBy(sections, [a \in all |-> <<OrderOf(a, disk.modules), a.index>>])
          ELSE SortBy(sections, [a \in all |-> <<0, a.index>>])

\* Number of modules of the course.
MaxModules == 3

Modules == 1..MaxModules

\* What downloadCourse leaves of module m: no directory, the directory alone, a
\* lesson page, or a lesson page with its lesson.json.
ModuleDir(m, state) ==
    [prefix |-> m, module |-> m, lessons |-> state, moduleIndex |-> m]

\* The assets directory of the cover: no number in the name, no lesson directory.
AssetsDir == [prefix |-> 0, module |-> 0, lessons |-> "empty", moduleIndex |-> 0]

\* The modules array of .course.json.
ManifestModules == [m \in Modules |-> [index |-> m, moduleDirName |-> m]]

\* The course directories readdir may return, in the orders it may return them.
Disks ==
    {[entries |-> e, modules |-> mods] :
        e \in UNION {Orders(present) :
                present \in {{ModuleDir(m, st[m]) : m \in {x \in Modules : st[x] # "absent"}} \cup extra :
                        st \in [Modules -> {"absent", "empty", "page", "manifest"}],
                        extra \in {{}, {AssetsDir}}}},
        mods \in {<<>>, ManifestModules}}

InitOrder ==
    /\ Idle
    /\ input \in Disks
    /\ output = <<>>

RegenerateOrder ==
    /\ input # <<>>
    /\ output = <<>>
    /\ CourseInfo(input) # <<>>
    /\ output' = CourseInfo(input)
    /\ UNCHANGED <<concurrency, lessonData, courseImageUrl, run, alive, main, index,
                   workers, task, dl, completedLessons, failedLessons, events, files,
                   assets, course, queue, pass, signals, calls, prev, input>>

SpecOrder == InitOrder /\ [][RegenerateOrder]_vars

----------------------------------------------------------------------------
(* Scraper.extractLessonData: the video link of a lesson (SpecVideoLink) *)

\* A string is the sequence of its parts; the empty string is falsy.
NoLink == <<>>

DirectLink == <<"https://vimeo.com/1">>

\* What a poll finds in the resource entries or in a video element.
ManifestUrl == <<"https://stream.video.skool.com/", "live", ".m3u8?token=", "signed">>

\* pageProps.video and pageProps.course.video: absent, or an object whose
\* fields may be missing (a missing field is the empty string here).
NoVideoObject == [present |-> FALSE, id |-> "", playbackId |-> "", playbackToken |-> ""]

VideoObjects ==
    {NoVideoObject} \cup
        [present : {TRUE}, id : {"v1", "v2"}, playbackId : {"", "p1"},
         playbackToken : {"", "t1"}]

\* The page a lesson is extracted from.
LessonPages ==
    [videoLink : {NoLink, DirectLink}, videoId : {"", "v1"}, hasPlayButton : BOOLEAN,
     video : VideoObjects, courseVideo : VideoObjects]

\* videoData = pageProps.video || pageProps.course?.video
VideoData(page) == IF page.video.present THEN page.video ELSE page.courseVideo

Reconstructable(page) ==
    /\ VideoData(page).present
    /\ VideoData(page).id = page.videoId
    /\ VideoData(page).playbackId # ""
    /\ VideoData(page).playbackToken # ""

HlsUrl(videoData) ==
    <<"https://stream.video.skool.com/", videoData.playbackId, ".m3u8?token=",
      videoData.playbackToken>>

PollAttempts == 10

\* The src of a video element found in a shadow root.
ElementUrl == <<"https://stream.video.skool.com/", "live", ".m3u8">>

\* What one probe of the page sees: a resource entry of a manifest with a token,
\* a video element with a manifest src, both, or nothing; or the probe throws.
Sights == {"entry", "element", "both", "nothing", "throws"}

\* 1. the last matching resource entry; 2. the video element; else null.
ProbeResult(sight) ==
    IF sight \in {"entry", "both"} THEN ManifestUrl
    ELSE IF sight = "element" THEN ElementUrl
    ELSE NoLink

\* The extraction in progress: where it stands, the failed polls so far, the
\* link, whether the click went through, what the probes saw, and whether the
\* reconstruction from the page data was entered.
Extraction == output[1]

Extracting(pc) == input # <<>> /\ output # <<>> /\ Extraction.pc = pc

Step(pc, attempts, vLink, clicked, probes, fallback) ==
    /\ output' = <<[pc |-> pc, attempts |-> attempts, vLink |-> vLink, clicked |-> clicked,
                    probes |-> probes, fallback |-> fallback]>>
    /\ UNCHANGED <<concurrency, lessonData, courseImageUrl, run, alive, main, index,
                   workers, task, dl, completedLessons, failedLessons, events, files,
                   assets, course, queue, pass, signals, calls, prev, input>>

InitVideoLink ==
    /\ Idle
    /\ input \in LessonPages
    /\ output = <<>>

\* let vLink = metadata.videoLink || ...; if (!vLink && metadata.videoId)
ReadMetadata ==
    /\ input # <<>>
    /\ output = <<>>
    /\ Step(IF input.videoLink = NoLink /\ input.videoId # "" THEN "native" ELSE "done",
            0, input.videoLink, FALSE, <<>>, FALSE)

\* hasPlayButton; page.click, which may throw into the catch.
ClickPlay ==
    /\ Extracting("native")
    /\ IF input.hasPlayButton
         THEN \E clicks \in BOOLEAN :
                  Step(IF clicks THEN "poll" ELSE "done", 0, NoLink, clicks, <<>>, FALSE)
         ELSE Step("fallback", 0, NoLink, FALSE, <<>>, FALSE)

\* Poll with no break on a hit: the loop probes on until it has counted 10 turns.
PollNoBreak ==
    /\ Extracting("poll")
    /\ Extraction.attempts < PollAttempts
    /\ \E sight \in Sights :
          IF sight = "throws"
            THEN Step("done", Extraction.attempts, NoLink, TRUE,
                      Append(Extraction.probes, sight), FALSE)
            ELSE Step(IF Extraction.attempts + 1 < PollAttempts THEN "poll" ELSE "fallback",
                      Extraction.attempts + 1, ProbeResult(sight), TRUE,
                      Append(Extraction.probes, sight), FALSE)

\* One turn of while (attempts < 10): a hit breaks, a miss waits and counts.
Poll ==
    /\ Extracting("poll")
    /\ Extraction.attempts < PollAttempts
    /\ \E sight \in Sights :
          IF sight = "throws"
            THEN Step("done", Extraction.attempts, NoLink, TRUE,
                      Append(Extraction.probes, sight), FALSE)
          ELSE IF ProbeResult(sight) # NoLink
            THEN Step("fallback", Extraction.attempts, ProbeResult(sight), TRUE,
                      Append(Extraction.probes, sight), FALSE)
            ELSE Step(IF Extraction.attempts + 1 < PollAttempts THEN "poll" ELSE "fallback",
                      Extraction.attempts + 1, NoLink, TRUE,
                      Append(Extraction.probes, sight), FALSE)

\* if (!vLink) { const videoData = ...; if (videoData && ...) vLink = `...` }
Reconstruct ==
    /\ Extracting("fallback")
    /\ Step("done", Extraction.attempts,
            IF Extraction.vLink = NoLink /\ Reconstructable(input)
              THEN HlsUrl(VideoData(input))
              ELSE Extraction.vLink,
            Extraction.clicked, Extraction.probes, Extraction.vLink = NoLink)

NextVideoLink == ReadMetadata \/ ClickPlay \/ Poll \/ Reconstruct

SpecVideoLink == InitVideoLink /\ [][NextVideoLink]_vars

----------------------------------------------------------------------------
(* SpecUnresolved: a single-lesson run whose lesson data is extracted from a page *)

\* The lesson task calls scraper.extractLessonData on a page of LessonPages; the
\* lesson data of the run is what that call returns: a lesson with a video link
\* or one without.
InitUnresolved ==
    /\ concurrency = 1
    /\ lessonData \in {<<VideoLesson>>, <<TextLesson>>}
    /\ courseImageUrl = "none"
    /\ run = "first"
    /\ prev = NoPrev
    /\ Fresh(lessonData)
    /\ EmptyDisk(lessonData)
    /\ input \in LessonPages
    /\ output = <<>>

\* A step of extractLessonData, called by the lesson task.
ExtractionStep ==
    /\ alive
    /\ \E l \in Lessons : task[l].pc = "extract"
    /\ NextVideoLink

\* extractLessonData has returned the lesson data of lesson l.
ExtractionReturned(l) ==
    /\ Extracting("done")
    /\ lessonData[l].videoLink = (Extraction.vLink # NoLink)

NextUnresolved ==
    \/ CourseStep
    \/ SequentialNext
    \/ GateStep
    \/ ExtractionStep
    \/ \E l \in Lessons :
          \/ EnsureLessonDir(l)
          \/ ExtractionReturned(l) /\ ExtractLessonData(l)
          \/ DownloadVideo(l)
          \/ VideoToolSucceeds(l)
          \/ DownloadVideoThrows(l)
          \/ WriteLessonPage(l)
          \/ WriteLessonManifestTmp(l)
          \/ MoveLessonManifest(l)
          \/ LessonThrows(l)

SpecUnresolved == InitUnresolved /\ [][NextUnresolved]_vars

----------------------------------------------------------------------------
(* Scraper.extractLessonData: the resources of a lesson (SpecMerge) *)

\* A title is the sequence of its characters; only blanks and one letter
\* group matter to the merge.
Blank == " "

RECURSIVE TrimStart(_)
TrimStart(s) == IF s # <<>> /\ Head(s) = Blank THEN TrimStart(Tail(s)) ELSE s

RECURSIVE TrimEnd(_)
TrimEnd(s) ==
    IF s # <<>> /\ s[Len(s)] = Blank THEN TrimEnd(SubSeq(s, 1, Len(s) - 1)) ELSE s

\* String.prototype.trim
Trim(s) == TrimEnd(TrimStart(s))

Titles == {<<"Guide.pdf">>, <<"Guide.pdf", Blank>>, <<"Notes">>}

\* An entry of metadata.resources: a native file (downloadUrl) or a link.
MetadataResources ==
    [title : Titles, link : {""}, downloadUrl : {"https://api2.skool.com/files/m"}]
        \cup [title : Titles, link : {"https://example.org/m"}, downloadUrl : {""}]

\* resources.map(r => r.link && !r.downloadUrl ? {...r, downloadUrl: r.link, isExternal: true} : r)
NormalizeResource(r) ==
    IF r.link # "" /\ r.downloadUrl = ""
      THEN [title |-> r.title, downloadUrl |-> r.link, isExternal |-> TRUE]
      ELSE [title |-> r.title, downloadUrl |-> r.downloadUrl, isExternal |-> FALSE]

\* A div[class*="ResourceWrapper"] of the page: its label, if any, and the
\* href of its anchor ("" when it has none).
Wrappers ==
    [hasLabel : {TRUE}, label : Titles \cup {<<>>},
     href : {"", "https://example.org/d", "https://api2.skool.com/files/d"}]
        \cup [hasLabel : {FALSE}, label : {<<>>},
              href : {"", "https://example.org/d", "https://api2.skool.com/files/d"}]

\* const title = labelSpan ? labelSpan.textContent?.trim() : 'Untitled Resource'
DomTitle(w) == IF w.hasLabel THEN Trim(w.label) ELSE <<"Untitled Resource">>

\* isExternal = !!(url && !url.includes('api2.skool.com') && !url.includes('/files/'))
DomIsExternal(w) == w.href = "https://example.org/d"

DomResource(w) == [title |-> DomTitle(w), url |-> w.href, isExternal |-> DomIsExternal(w)]

MaxResources == 2

UpTo(S, n) == UNION {[1..k -> S] : k \in 0..n}

\* The merge in progress: the resources so far and the next DOM resource.
Merge == output[1]

Merging == input # <<>> /\ output # <<>> /\ Merge.next <= Len(input.dom)

MergeStep(resources, next) ==
    /\ output' = <<[resources |-> resources, next |-> next]>>
    /\ UNCHANGED <<concurrency, lessonData, courseImageUrl, run, alive, main, index,
                   workers, task, dl, completedLessons, failedLessons, events, files,
                   assets, course, queue, pass, signals, calls, prev, input>>

InitMerge ==
    /\ Idle
    /\ input \in [meta : UpTo(MetadataResources, MaxResources),
                  dom : UpTo(Wrappers, MaxResources)]
    /\ output = <<>>

\* 1. the resources of the metadata, normalized.
ReadMetadataResources ==
    /\ input # <<>>
    /\ output = <<>>
    /\ MergeStep([i \in DOMAIN input.meta |-> NormalizeResource(input.meta[i])], 1)

\* resources.some(r => r.title === domRes.title)
TitleExists(resources, title) == \E i \in DOMAIN resources : resources[i].title = title

\* 2. one turn of for (const domRes of domResources).
MergeDomResource ==
    /\ Merging
    /\ LET domRes == DomResource(input.dom[Merge.next])
           exists == TitleExists(Merge.resources, domRes.title)
       IN  IF ~exists /\ domRes.title # <<>> /\ domRes.url # ""
             THEN MergeStep(Append(Merge.resources,
                                   [title |-> domRes.title, downloadUrl |-> domRes.url,
                                    isExternal |-> domRes.isExternal]),
                            Merge.next + 1)
             ELSE MergeStep(Merge.resources, Merge.next + 1)

NextMerge == ReadMetadataResources \/ MergeDomResource

SpecMerge == InitMerge /\ [][NextMerge]_vars

----------------------------------------------------------------------------
(* parseArgs and normalizeConcurrency: the bound of the scheduler (SpecConcurrency) *)

DEFAULT_CONCURRENCY == 8

MAX_CONCURRENCY == 16

MaxRequested == 18

\* A JavaScript number: NaN, an infinity, or twice / 2 (halves stand for the
\* numbers that are not integers).
Numbers ==
    [kind : {"num"}, twice : (0 - 2 * MaxRequested)..(2 * MaxRequested)]
        \cup [kind : {"nan", "inf"}, twice : {0}]

Undefined == [kind |-> "undefined", twice |-> 0]

Integer(n) == [kind |-> "num", twice |-> 2 * n]

\* The integer part, towards zero, of a number that is not NaN or infinite.
Truncate(twice) == IF twice >= 0 THEN twice \div 2 ELSE 0 - ((0 - twice) \div 2)

\* Number.parseInt(next, 10) of the text of a number; other text gives NaN.
ParseInt(text) ==
    IF text.kind = "num" THEN Integer(Truncate(text.twice))
    ELSE [kind |-> "nan", twice |-> 0]

\* Math.floor
Floor(twice) == twice \div 2

\* The bound with the check of floored <= 0 left out.
NormalizeConcurrencyUnchecked(value) ==
    IF value.kind # "num" THEN DEFAULT_CONCURRENCY
    ELSE Min(MAX_CONCURRENCY, Floor(value.twice))

NormalizeConcurrency(value) ==
    IF value.kind # "num" THEN DEFAULT_CONCURRENCY
    ELSE IF Floor(value.twice) <= 0 THEN DEFAULT_CONCURRENCY
    ELSE Min(MAX_CONCURRENCY, Floor(value.twice))

\* The request: -c <text> on the command line (or no -c, or -c without a
\* text), or options.concurrency of a caller of downloadCourse.
Requests ==
    [from : {"cli"}, given : {TRUE}, value : Numbers]
        \cup [from : {"api"}, given : {TRUE}, value : Numbers]
        \cup [from : {"cli", "api"}, given : {FALSE}, value : {Undefined}]

Bound == output[1]

BoundStep(pc, value, k) ==
    /\ output' = <<[pc |-> pc, value |-> value, k |-> k]>>
    /\ UNCHANGED <<concurrency, lessonData, courseImageUrl, run, alive, main, index,
                   workers, task, dl, completedLessons, failedLessons, events, files,
                   assets, course, queue, pass, signals, calls, prev, input>>

InitConcurrency ==
    /\ Idle
    /\ input \in Requests
    /\ output = <<>>

\* parsed.concurrency = next ? Number.parseInt(next, 10) : undefined
ParseArgs ==
    /\ input # <<>>
    /\ output = <<>>
    /\ input.from = "cli"
    /\ BoundStep("options", IF input.given THEN ParseInt(input.value) ELSE Undefined, 0)

\* downloadCourse(scraper, url, options) called with options.concurrency.
CallDownloadCourse ==
    /\ input # <<>>
    /\ output = <<>>
    /\ input.from = "api"
    /\ BoundStep("options", input.value, 0)

\* const concurrency = normalizeConcurrency(options.concurrency)
Normalize ==
    /\ input # <<>>
    /\ output # <<>>
    /\ Bound.pc = "options"
    /\ BoundStep("normalized", Bound.value, NormalizeConcurrency(Bound.value))

NextConcurrency == ParseArgs \/ CallDownloadCourse \/ Normalize

SpecConcurrency == InitConcurrency /\ [][NextConcurrency]_vars

----------------------------------------------------------------------------
(* SpecScan: regenerateIndex over a course directory edited by hand *)

\* The directory is what a run of a two-module course left behind; lesson
\* directories are then moved or renamed and module directories renamed by hand,
\* and regenerateIndex is run.

\* The titles of the modules and of the lessons of a module, as the site gives
\* them; a title is the sequence of its parts.
ModuleTitles == <<(<<"Q&A", ":", "Tips">>), (<<"Basics">>)>>

LessonTitles == <<(<<"Welcome">>), (<<"Setup", "?">>)>>

\* value.replace(/[/\\?%*:|"<>]/g, '-')
PathBreaking == {"/", "\\", "?", "%", "*", ":", "|", "\"", "<", ">"}

sanitizeName(value) ==
    [i \in DOMAIN value |-> IF value[i] \in PathBreaking THEN "-" ELSE value[i]]

\* `${index}-${sanitizeName(title)}`: the number in front of the name and the rest.
DirName(number, title) == [number |-> number, rest |-> sanitizeName(title)]

\* A name given by hand, with no number in front.
HandNames == {[number |-> 0, rest |-> <<"Archive">>]}

ModuleNames == {DirName(m, ModuleTitles[m]) : m \in DOMAIN ModuleTitles} \cup HandNames

LessonNames == {DirName(l, LessonTitles[l]) : l \in DOMAIN LessonTitles} \cup HandNames

\* `${moduleDirName}/${lessonDirName}/index.html`
RelativePaths == ModuleNames \X LessonNames

PathOf(m, l) == <<DirName(m, ModuleTitles[m]), DirName(l, LessonTitles[l])>>

\* The lesson.json the lesson task writes for lesson l of module m.
ManifestOnDisk(m, l) ==
    [title |-> LessonTitles[l], moduleIndex |-> m, moduleTitle |-> ModuleTitles[m],
     lessonIndex |-> l, relativePath |-> PathOf(m, l)]

\* The modules of the .course.json the run writes.
CourseModules ==
    [m \in DOMAIN ModuleTitles |->
        [index |-> m, title |-> ModuleTitles[m],
         moduleDirName |-> DirName(m, ModuleTitles[m])]]

\* A lesson directory: absent, with index.html alone, with index.html and a
\* lesson.json (readable or not); m and l say which lesson the run put there.
NoLessonDir == [state |-> "absent", m |-> 0, l |-> 0]

HasPage(d) == d.state \in {"page", "manifest", "unreadable"}

\* What a run, finished or killed, leaves in the course directory.
LeftByRun ==
    {[lessons |-> [p \in RelativePaths |->
                      IF \E m \in DOMAIN ModuleTitles, l \in DOMAIN LessonTitles :
                             p = PathOf(m, l) /\ st[m][l] # "absent"
                        THEN LET m == CHOOSE m \in DOMAIN ModuleTitles :
                                          \E l \in DOMAIN LessonTitles : p = PathOf(m, l)
                                 l == CHOOSE l \in DOMAIN LessonTitles : p = PathOf(m, l)
                             IN  [state |-> st[m][l], m |-> m, l |-> l]
                        ELSE NoLessonDir],
      course |-> c, edits |-> 0] :
        st \in [DOMAIN ModuleTitles ->
                   [DOMAIN LessonTitles -> {"absent", "page", "manifest", "unreadable"}]],
        c \in {"absent", "unreadable", "readable"}}

MaxEdits == 2

ScanStep(disk, page) ==
    /\ input' = disk
    /\ output' = page
    /\ UNCHANGED <<concurrency, lessonData, courseImageUrl, run, alive, main, index,
                   workers, task, dl, completedLessons, failedLessons, events, files,
                   assets, course, queue, pass, signals, calls, prev>>

InitScan ==
    /\ Idle
    /\ input \in LeftByRun
    /\ output = <<>>

\* By hand: a lesson directory is moved or renamed.
MoveLessonDir ==
    /\ output = <<>>
    /\ input.edits < MaxEdits
    /\ \E p, q \in RelativePaths :
          /\ input.lessons[p].state # "absent"
          /\ input.lessons[q].state = "absent"
          /\ ScanStep([input EXCEPT !.lessons[q] = input.lessons[p],
                                    !.lessons[p] = NoLessonDir,
                                    !.edits = @ + 1], output)

\* By hand: a module directory is renamed.
RenameModuleDir ==
    /\ output = <<>>
    /\ input.edits < MaxEdits
    /\ \E a, b \in ModuleNames :
          /\ \E l \in LessonNames : input.lessons[<<a, l>>].state # "absent"
          /\ \A l \in LessonNames : input.lessons[<<b, l>>].state = "absent"
          /\ ScanStep([input EXCEPT
                          !.lessons = [p \in RelativePaths |->
                                          IF p[1] = b THEN input.lessons[<<a, p[2]>>]
                                          ELSE IF p[1] = a THEN NoLessonDir
                                          ELSE input.lessons[p]],
                          !.edits = @ + 1], output)

\* `parseInt(name.split('-')[0]) || 999`
NameNumber(name) == IF name.number = 0 THEN NoNumber ELSE name.number

\* Some listing of a set; the sorts that follow put it in order.
Listing(S) == CHOOSE f \in Orders(S) : TRUE

\* fs.readJson(manifestPath) without the try around it.
ReadLessonManifestUncaught(d) ==
    IF d.state = "manifest" THEN [found |-> TRUE, threw |-> FALSE]
    ELSE [found |-> FALSE, threw |-> d.state = "unreadable"]

\* if (fs.existsSync(manifestPath)) { try { manifest = await fs.readJson(...) } catch { warn } }
ReadLessonManifest(d) ==
    [found |-> d.state = "manifest", threw |-> FALSE]

\* The entry of a lesson directory in the list of its module.
LessonEntry(disk, p) ==
    LET d == disk.lessons[p]
        manifest == ManifestOnDisk(d.m, d.l)
    IN  IF ReadLessonManifest(d).found
          THEN [title |-> manifest.title, path |-> manifest.relativePath,
                index |-> manifest.lessonIndex,
                moduleTitleOverride |-> manifest.moduleTitle,
                moduleIndexOverride |-> manifest.moduleIndex]
          ELSE [title |-> p[2].rest, path |-> p, index |-> NameNumber(p[2]),
                moduleTitleOverride |-> <<>>, moduleIndexOverride |-> 0]

\* The lessons of module directory a: by directory number, then by index.
LessonsOf(disk, a) ==
    LET dirs == {l \in LessonNames : HasPage(disk.lessons[<<a, l>>])}
        byNumber == SortBy(Listing(dirs), [l \in dirs |-> <<NameNumber(l), 0>>])
        entries == [i \in DOMAIN byNumber |-> LessonEntry(disk, <<a, byNumber[i]>>)]
        all == {entries[i] : i \in DOMAIN entries}
    IN  SortBy(entries, [e \in all |-> <<e.index, 0>>])

\* lessons.find(l => l.moduleTitleOverride)?.moduleTitleOverride || moduleTitle
ResolvedTitle(lessons, a) ==
    IF \E i \in DOMAIN lessons : lessons[i].moduleTitleOverride # <<>>
      THEN lessons[CHOOSE i \in DOMAIN lessons :
                      /\ lessons[i].moduleTitleOverride # <<>>
                      /\ \A j \in 1..(i - 1) : lessons[j].moduleTitleOverride = <<>>]
               .moduleTitleOverride
      ELSE a.rest

\* lessons.find(l => l.moduleIndexOverride)?.moduleIndexOverride ?? moduleIndex
ResolvedIndex(lessons, a) ==
    IF \E i \in DOMAIN lessons : lessons[i].moduleIndexOverride # 0
      THEN lessons[CHOOSE i \in DOMAIN lessons :
                      /\ lessons[i].moduleIndexOverride # 0
                      /\ \A j \in 1..(i - 1) : lessons[j].moduleIndexOverride = 0]
               .moduleIndexOverride
      ELSE NameNumber(a)

\* courseInfo.push({ title, lessons, index })
ScanSection(disk, a) ==
    LET lessons == LessonsOf(disk, a) IN
    [title |-> ResolvedTitle(lessons, a), lessons |-> lessons,
     index |-> ResolvedIndex(lessons, a)]

\* The sections of the page regenerateIndex writes for the disk.
ScanCourseInfo(disk) ==
    LET dirs == {a \in ModuleNames : \E l \in LessonNames : HasPage(disk.lessons[<<a, l>>])}
        moduleDirs == SortBy(Listing(dirs), [a \in dirs |-> <<NameNumber(a), 0>>])
        sections == [i \in DOMAIN moduleDirs |-> ScanSection(disk, moduleDirs[i])]
        all == {sections[i] : i \in DOMAIN sections}
    IN  IF disk.course = "readable"
          THEN SortBy(sections, [a \in all |-> <<OrderOf(a, CourseModules), a.index>>])
          ELSE SortBy(sections, [a \in all |-> <<0, a.index>>])

\* One pass of regenerateIndex over the directory: it throws, or it writes the page.
RegenerateScan ==
    /\ input # <<>>
    /\ output = <<>>
    /\ LET threw == \E p \in RelativePaths : HasPage(input.lessons[p])
                                       /\ ReadLessonManifest(input.lessons[p]).threw
       IN  ScanStep(input, <<[threw |-> threw,
                              sections |-> IF threw THEN <<>> ELSE ScanCourseInfo(input)]>>)

NextScan == MoveLessonDir \/ RenameModuleDir \/ RegenerateScan

SpecScan == InitScan /\ [][NextScan]_vars

----------------------------------------------------------------------------
(* SpecImages: Downloader.localizeImages over the images of a lesson *)

\* The src of an <img>: the characters up to the path, the directory and the
\* basename of the path, and the query.
HttpsHead(host) == <<"h", "t", "t", "p", "s", ":", "/", "/">> \o host

HttpHead(host) == <<"h", "t", "t", "p", ":", "/", "/">> \o host

ImageUrls ==
    [head : {HttpsHead(<<"a", ".", "c", "o">>), HttpsHead(<<"b", ".", "c", "o">>),
             HttpHead(<<"a", ".", "c", "o">>)},
     dir : {"/x/"}, base : {"image.png", "photo.jpg"}, query : {"", "?v=2"}]
        \cup [head : {<<>>}, dir : {"/x/"}, base : {"image.png"}, query : {""}]

\* url.startsWith('http')
StartsWithHttp(url) ==
    Len(url.head) >= 4 /\ SubSeq(url.head, 1, 4) = <<"h", "t", "t", "p">>

\* The upper four bits of the ASCII code of a character of a URL head.
HighNibble(c) ==
    IF c \in {"/", "."} THEN 2
    ELSE IF c = ":" THEN 3
    ELSE IF c \in {"a", "b", "c", "h", "o"} THEN 6
    ELSE 7

\* Buffer.from(url).toString('base64').substring(0, 10): ten base64 characters
\* hold 60 bits, the first seven bytes of the URL and half of the eighth.
Base64Prefix(url) == <<SubSeq(url.head, 1, 7), HighNibble(url.head[8])>>

\* `img_${...}_${path.basename(new URL(url).pathname)}`
Filename(url) == <<"img_", Base64Prefix(url), "_", url.base>>

MaxImages == 2

\* localizeImages in progress: the tasks pushed so far and the next match.
Localizing == output[1]

ImageStep(tasks, next) ==
    /\ output' = <<[tasks |-> tasks, next |-> next]>>
    /\ UNCHANGED <<concurrency, lessonData, courseImageUrl, run, alive, main, index,
                   workers, task, dl, completedLessons, failedLessons, events, files,
                   assets, course, queue, pass, signals, calls, prev, input>>

InitImages ==
    /\ Idle
    /\ input \in UpTo(ImageUrls, MaxImages)
    /\ output = <<>>

\* const tasks = []; the regex is at the first <img> of the html.
LocalizeImages ==
    /\ output = <<>>
    /\ ImageStep(<<>>, 1)

\* One turn of while ((match = imgRegex.exec(html)) !== null).
MatchImage ==
    /\ output # <<>>
    /\ Localizing.next <= Len(input)
    /\ LET url == input[Localizing.next] IN
       IF StartsWithHttp(url)
         THEN ImageStep(Append(Localizing.tasks,
                               [url |-> url, outputPath |-> <<"assets", Filename(url)>>]),
                        Localizing.next + 1)
         ELSE ImageStep(Localizing.tasks, Localizing.next + 1)

NextImages == LocalizeImages \/ MatchImage

SpecImages == InitImages /\ [][NextImages]_vars

----------------------------------------------------------------------------
(* SpecTree: the course tree from the classroom page to the lesson tasks *)

\* Scraper.parseClassroom applied to the page data and downloadCourse up to the
\* list of lesson tasks: up to MaxSections sets of up to two children each; a
\* lesson id may be requested, and the output directory may hold the .course.json
\* of an earlier run over the whole course.

MaxSections == 2

\* Titles as the site gives them, character by character.
SectionTitles == {<<"a">>, <<"a", ":">>}
ChildTitles == {<<"a", "/">>, <<"a", "-">>}

\* A child of a set: modInfo.id may be missing.
Children == [hasId : BOOLEAN, title : ChildTitles]
ChildLists == UpTo(Children, 2)

Sets == [title : SectionTitles, children : ChildLists]

\* modInfo.id of the child at place p of set s.
IdAt(s, p) == 10 * s + p

\* options.lessonId: none (0), the id of a child place, or an id of no child.
Targets == {0, IdAt(1, 1), IdAt(2, 1), IdAt(2, 2), 99}

\* (set.children || []).map((mod, lIdx) => ({id, title, index: lIdx + 1}))
\*     .filter(l => l.id)
HasId(lesson) == lesson.id # 0

LessonsOfSet(s, children) ==
    SelectSeq([p \in DOMAIN children |->
                  [id |-> IF children[p].hasId THEN IdAt(s, p) ELSE 0,
                   title |-> children[p].title,
                   index |-> p]],
              HasId)

\* courseData.children.map((set, mIdx) => ({title, index: mIdx + 1, lessons}));
\* modules.filter(m => m.lessons.length > 0)
HasLessons(module) == Len(module.lessons) > 0

parseClassroom(sets) ==
    SelectSeq([s \in DOMAIN sets |->
                  [title |-> sets[s].title, index |-> s,
                   lessons |-> LessonsOfSet(s, sets[s].children)]],
              HasLessons)

\* The decimal digits of a positive number.
RECURSIVE Decimal(_)
Decimal(n) ==
    LET digit == <<"0", "1", "2", "3", "4", "5", "6", "7", "8", "9">>[(n % 10) + 1]
    IN IF n < 10 THEN <<digit>> ELSE Append(Decimal(n \div 10), digit)

\* `${lIndex}-${sanitizeName(lesson.title)}` without the number in front.
lessonDirNameUnnumbered(lIndex, title) == sanitizeName(title)

\* `${m.index}-${sanitizeName(m.title)}`
moduleDirName(mIndex, title) == Decimal(mIndex) \o <<"-">> \o sanitizeName(title)

\* `${lIndex}-${sanitizeName(lesson.title)}`
lessonDirName(lIndex, title) == Decimal(lIndex) \o <<"-">> \o sanitizeName(title)

\* The module that holds the requested lesson, narrowed to that lesson:
\* `module.lessons = [lesson]; modules = [module]` at the first module that has it.
HoldsTarget(module, target) ==
    \E k \in DOMAIN module.lessons : module.lessons[k].id = target

NarrowTo(modules, target) ==
    LET i == CHOOSE j \in DOMAIN modules :
                 /\ HoldsTarget(modules[j], target)
                 /\ \A h \in 1..(j - 1) : ~HoldsTarget(modules[h], target)
        k == CHOOSE h \in DOMAIN modules[i].lessons : modules[i].lessons[h].id = target
    IN <<[modules[i] EXCEPT !.lessons = <<modules[i].lessons[k]>>]>>

\* The modules of .course.json: courseInfo.map(m => ({index, title, moduleDirName})).
ManifestModulesOf(modules) ==
    [i \in DOMAIN modules |->
        [index |-> modules[i].index, title |-> modules[i].title,
         moduleDirName |-> moduleDirName(modules[i].index, modules[i].title)]]

NoCourseJson == [exists |-> FALSE, modules |-> <<>>]
CourseJson(modules) == [exists |-> TRUE, modules |-> ManifestModulesOf(modules)]

\* The lesson tasks in the order they are pushed, each with its directory.
RECURSIVE TasksOf(_)
TasksOf(modules) ==
    IF modules = <<>> THEN <<>>
    ELSE LET m == Head(modules) IN
         [k \in DOMAIN m.lessons |->
             [id |-> m.lessons[k].id,
              moduleDirName |-> moduleDirName(m.index, m.title),
              lessonDirName |-> lessonDirName(m.lessons[k].index, m.lessons[k].title)]]
         \o TasksOf(Tail(modules))

\* The call in progress.
Tree == output[1]

TreeStep(pc, modules, courseJson, tasks) ==
    /\ output' = <<[pc |-> pc, modules |-> modules, courseJson |-> courseJson,
                    tasks |-> tasks]>>
    /\ UNCHANGED <<concurrency, lessonData, courseImageUrl, run, prev, input, alive,
                   main, schedVars, lessonVars, dl, assets, course, indexVars, calls>>

InitTree ==
    /\ Idle
    /\ input \in [sets : UpTo(Sets, MaxSections), target : Targets, rerun : BOOLEAN]
    /\ output = <<>>

\* scraper.parseClassroom(classroomUrl) returns the modules; the directory is
\* empty or holds the .course.json a run over the whole course wrote.
ParseTree ==
    /\ output = <<>>
    /\ LET modules == parseClassroom(input.sets) IN
       TreeStep("parsed", modules,
                IF input.rerun /\ modules # <<>> THEN CourseJson(modules) ELSE NoCourseJson,
                <<>>)

\* `modules.length === 0` throws; single lesson mode keeps the module of the
\* lesson with the lesson alone, and throws if no module has it.
NarrowTree ==
    /\ output # <<>>
    /\ Tree.pc = "parsed"
    /\ IF Tree.modules = <<>>
         THEN TreeStep("rejected", Tree.modules, Tree.courseJson, <<>>)
         ELSE IF input.target = 0
           THEN TreeStep("narrowed", Tree.modules, Tree.courseJson, <<>>)
           ELSE IF \E i \in DOMAIN Tree.modules : HoldsTarget(Tree.modules[i], input.target)
             THEN TreeStep("narrowed", NarrowTo(Tree.modules, input.target),
                           Tree.courseJson, <<>>)
             ELSE TreeStep("rejected", Tree.modules, Tree.courseJson, <<>>)

\* writeAtomicJson(.course.json, courseManifest)
WriteCourseJson ==
    /\ output # <<>>
    /\ Tree.pc = "narrowed"
    /\ TreeStep("written", Tree.modules, CourseJson(Tree.modules), <<>>)

\* The loops over the modules and their lessons push the lesson tasks.
PushTasks ==
    /\ output # <<>>
    /\ Tree.pc = "written"
    /\ TreeStep("tasks", Tree.modules, Tree.courseJson, TasksOf(Tree.modules))

NextTree == ParseTree \/ NarrowTree \/ WriteCourseJson \/ PushTasks

SpecTree == InitTree /\ [][NextTree]_vars

----------------------------------------------------------------------------
(* SpecCallbacks: a run whose onLessonComplete callback may throw *)

\* options.callbacks is given by the caller of downloadCourse; a callback is code
\* of the caller and may throw.
CallbackFault(l) == <<"callback", l>>

\* lesson.json is moved into place, completedLessons is incremented and
\* onLessonComplete is called and throws: the outer catch of the task increments
\* failedLessons and calls onLessonError; no index pass is enqueued.
OnLessonCompleteThrows(l) ==
    /\ alive
    /\ task[l].pc = "manifestMove"
    /\ files' = [files EXCEPT ![l].manifest = files[l].tmp, ![l].tmp = NoFile]
    /\ completedLessons' = completedLessons + 1
    /\ failedLessons' = failedLessons + 1
    /\ events' = [events EXCEPT !.completed = @ \cup {l}, !.errored = @ \cup {l}]
    /\ task' = [task EXCEPT ![l] = Settle("failed")]
    /\ calls' = [calls EXCEPT !.faults = @ \cup {CallbackFault(l)}]
    /\ UNCHANGED <<configVars, alive, main, schedVars, dl, assets, course, indexVars>>

InitCallbacks == InitShutdown

NextCallbacks ==
    \/ Next
    \/ \E l \in Lessons : OnLessonCompleteThrows(l)

SpecCallbacks == InitCallbacks /\ [][NextCallbacks]_vars

----------------------------------------------------------------------------
(* SpecStream: a run in which the response stream of a download may fail *)

\* A one-lesson course with a cover, an image and a resource; every step that
\* can be taken is eventually taken, and nothing is assumed of the network.

\* The response stream emits 'error' (the connection is reset, or it stalls until
\* the socket is destroyed) after the headers: pipe() unpipes the writer and
\* neither ends nor destroys it, so the writer emits neither 'finish' nor 'error'
\* and the promise of downloadAsset stays pending.
ResponseStreamFails(p) ==
    /\ alive
    /\ dl[p] = "streaming"
    /\ dl' = [dl EXCEPT ![p] = "pending"]
    /\ calls' = [calls EXCEPT !.faults = @ \cup {p}]
    /\ UNCHANGED <<configVars, alive, main, schedVars, lessonVars, assets, course,
                   indexVars>>

InitStream == InitRerun

NextStream ==
    \/ CourseStep
    \/ CoverSettled
    \/ SequentialNext
    \/ \E l \in Lessons :
          \/ LessonStep(l)
          \/ ImagesSettled(l)
          \/ StartResources(l)
          \/ ResourcesSettled(l)
    \/ \E p \in Paths : AssetStep(p)
    \/ \E p \in Paths : ResponseStreamFails(p)
    \/ GateStep

SpecStream == InitStream /\ [][NextStream]_vars /\ WF_vars(NextStream)

\* SpecStream with response streams that do not fail once the headers are in.
NextSound ==
    \/ CourseStep
    \/ CoverSettled
    \/ SequentialNext
    \/ \E l \in Lessons :
          \/ LessonStep(l)
          \/ ImagesSettled(l)
          \/ StartResources(l)
          \/ ResourcesSettled(l)
    \/ \E p \in Paths : AssetStep(p)
    \/ GateStep

SpecSound == InitStream /\ [][NextSound]_vars /\ WF_vars(NextSound)

----------------------------------------------------------------------------
(* SpecSetup: Downloader.init under concurrent calls of downloadVideo *)

\* Lesson workers call downloadVideo on the one Downloader of the run; the
\* yt-dlp binary is in bin/ or has to be downloaded first, which may fail.

Callers == 1..(MaxWorkers + 1)

\* The Downloader and the calls in progress.
Setup == output[1]

SetupStep(ytDlp, initPromise, setups, callers) ==
    /\ output' = <<[ytDlp |-> ytDlp, initPromise |-> initPromise, setups |-> setups,
                    callers |-> callers]>>
    /\ UNCHANGED <<concurrency, lessonData, courseImageUrl, run, prev, input, alive,
                   main, schedVars, lessonVars, dl, assets, course, indexVars, calls>>

\* `new Downloader(logger)`: ytDlp = null, initPromise = null.
InitSetup ==
    /\ Idle
    /\ input \in [binary : BOOLEAN]
    /\ output = <<[ytDlp |-> FALSE, initPromise |-> "null", setups |-> 0,
                   callers |-> [w \in Callers |-> "idle"]]>>

\* init() without initPromise: every call runs the presence check and the
\* download itself.
initUnshared(w) ==
    IF input.binary
      THEN SetupStep(TRUE, Setup.initPromise, Setup.setups + 1,
                     [Setup.callers EXCEPT ![w] = "awaitInit"])
      ELSE SetupStep(Setup.ytDlp, Setup.initPromise, Setup.setups + 1,
                     [Setup.callers EXCEPT ![w] = "setup"])

\* init(), run to its first await: a second call returns the promise of the
\* first; the first runs the presence check and, with the binary in place, sets
\* ytDlp at once, and otherwise awaits the download.
init(w) ==
    IF Setup.initPromise # "null"
      THEN SetupStep(Setup.ytDlp, Setup.initPromise, Setup.setups,
                     [Setup.callers EXCEPT ![w] = "awaitInit"])
      ELSE IF input.binary
        THEN SetupStep(TRUE, "resolved", Setup.setups + 1,
                       [Setup.callers EXCEPT ![w] = "awaitInit"])
        ELSE SetupStep(Setup.ytDlp, "pending", Setup.setups + 1,
                       [Setup.callers EXCEPT ![w] = "setup"])

\* downloadVideo(url, outputDir, filename): `if (!this.ytDlp) await this.init()`.
CallDownloadVideo(w) ==
    /\ Setup.callers[w] = "idle"
    /\ IF Setup.ytDlp
         THEN SetupStep(Setup.ytDlp, Setup.initPromise, Setup.setups,
                        [Setup.callers EXCEPT ![w] = "ensureDir"])
         ELSE init(w)

\* YTDlpWrap.downloadFromGithub (and chmod) ends: ytDlp is set and the promise
\* of init resolves, or it throws and the promise rejects.
DownloadFromGithubEnds(w) ==
    /\ Setup.callers[w] = "setup"
    /\ \E ok \in BOOLEAN :
          SetupStep(Setup.ytDlp \/ ok,
                    IF Setup.initPromise = "null" THEN "null"
                    ELSE IF ok THEN "resolved" ELSE "rejected",
                    Setup.setups,
                    [Setup.callers EXCEPT ![w] = IF ok THEN "ensureDir" ELSE "rejected"])

\* `await this.init()` ends for a caller that awaits the promise.
InitSettles(w) ==
    /\ Setup.callers[w] = "awaitInit"
    /\ Setup.initPromise # "pending"
    /\ SetupStep(Setup.ytDlp, Setup.initPromise, Setup.setups,
                 [Setup.callers EXCEPT ![w] =
                     IF Setup.initPromise = "rejected" THEN "rejected" ELSE "ensureDir"])

\* fs.ensureDir(outputDir), the existence check, then this.ytDlp!.execPromise(args).
ExecPromise(w) ==
    /\ Setup.callers[w] = "ensureDir"
    /\ SetupStep(Setup.ytDlp, Setup.initPromise, Setup.setups,
                 [Setup.callers EXCEPT ![w] = "tool"])

\* The tool exits.
ExecPromiseEnds(w) ==
    /\ Setup.callers[w] = "tool"
    /\ SetupStep(Setup.ytDlp, Setup.initPromise, Setup.setups,
                 [Setup.callers EXCEPT ![w] = "done"])

NextSetup ==
    \E w \in Callers :
        \/ CallDownloadVideo(w)
        \/ DownloadFromGithubEnds(w)
        \/ InitSettles(w)
        \/ ExecPromise(w)
        \/ ExecPromiseEnds(w)

SpecSetup == InitSetup /\ [][NextSetup]_vars

----------------------------------------------------------------------------
(* SpecWriters: the downloads localizeImages starts for the images of a lesson *)

\* localizeImages as in SpecImages, followed by its Promise.all over one
\* downloadAsset call per task; the calls run interleaved at their awaits.

\* The downloads in progress: the state of each call and the files under assets/.
Downloads == output[2]

DownloadsStep(pcs, disk) ==
    /\ output' = <<output[1], [pcs |-> pcs, disk |-> disk]>>
    /\ UNCHANGED <<concurrency, lessonData, courseImageUrl, run, prev, input, alive,
                   main, schedVars, lessonVars, dl, assets, course, indexVars, calls>>

OutputPath(i) == Localizing.tasks[i].outputPath

\* tasks.map(task => this.downloadAsset(task.url, task.outputPath)): every call
\* runs to its `await fs.ensureDir(...)`.
PromiseAllDownloads ==
    /\ Len(output) = 1
    /\ Localizing.next > Len(input)
    /\ Len(Localizing.tasks) > 0
    /\ DownloadsStep([i \in DOMAIN Localizing.tasks |-> "ensureDir"],
                     [p \in {OutputPath(i) : i \in DOMAIN Localizing.tasks} |-> "absent"])

\* After ensureDir: a file of non-zero size ends the call; otherwise
\* fs.createWriteStream(outputPath) truncates the file and the GET is issued.
CreateWriteStream(i) ==
    /\ Len(output) = 2
    /\ Downloads.pcs[i] = "ensureDir"
    /\ IF NonZero(Downloads.disk[OutputPath(i)])
         THEN DownloadsStep([Downloads.pcs EXCEPT ![i] = "resolved"], Downloads.disk)
         ELSE DownloadsStep([Downloads.pcs EXCEPT ![i] = "request"],
                            [Downloads.disk EXCEPT ![OutputPath(i)] = "empty"])

\* axios resolves with the response, which is piped to the writer.
PipeResponse(i) ==
    /\ Len(output) = 2
    /\ Downloads.pcs[i] = "request"
    /\ DownloadsStep([Downloads.pcs EXCEPT ![i] = "streaming"], Downloads.disk)

\* The writer writes bytes of the body to its file.
WriteChunk(i) ==
    /\ Len(output) = 2
    /\ Downloads.pcs[i] = "streaming"
    /\ Downloads.disk[OutputPath(i)] = "empty"
    /\ DownloadsStep(Downloads.pcs, [Downloads.disk EXCEPT ![OutputPath(i)] = "partial"])

\* The writer's 'finish'.
WriterFinishes(i) ==
    /\ Len(output) = 2
    /\ Downloads.pcs[i] = "streaming"
    /\ Downloads.disk[OutputPath(i)] = "partial"
    /\ DownloadsStep([Downloads.pcs EXCEPT ![i] = "resolved"],
                     [Downloads.disk EXCEPT ![OutputPath(i)] = "full"])

\* axios rejects or the writer emits 'error'; the catch of localizeImages warns.
DownloadRejects(i) ==
    /\ Len(output) = 2
    /\ Downloads.pcs[i] \in {"request", "streaming"}
    /\ DownloadsStep([Downloads.pcs EXCEPT ![i] = "rejected"], Downloads.disk)

NextWriters ==
    \/ LocalizeImages
    \/ MatchImage
    \/ PromiseAllDownloads
    \/ \E i \in 1..MaxImages :
          /\ Len(output) = 2
          /\ i \in DOMAIN Downloads.pcs
          /\ \/ CreateWriteStream(i)
             \/ PipeResponse(i)
             \/ WriteChunk(i)
             \/ WriterFinishes(i)
             \/ DownloadRejects(i)

SpecWriters == InitImages /\ [][NextWriters]_vars

----------------------------------------------------------------------------
(* SpecResources: the download URLs and the resource tasks of one lesson *)

\* The resources of a lesson after the merge: files hosted by the site (file_id,
\* no URL yet), links (external), files found in the page only (a URL, no
\* file_id) and entries with a title alone.  The exchange of a file_id for a
\* signed URL may answer with a URL, with a non-success status, with an empty
\* body, or throw.

ResourceNames == {<<"Guide.pdf">>, <<"Notes", ":", "1">>}

SignedUrl == "https://files.skool.com/signed"

LessonResources ==
    [title : ResourceNames, file_id : {"f"}, downloadUrl : {""}, isExternal : {FALSE}]
      \cup [title : ResourceNames, file_id : {""},
            downloadUrl : {"https://example.org/m"}, isExternal : {TRUE}]
      \cup [title : ResourceNames, file_id : {""},
            downloadUrl : {"https://api2.skool.com/files/d"}, isExternal : {FALSE}]
      \cup [title : ResourceNames, file_id : {""}, downloadUrl : {""}, isExternal : {FALSE}]

\* res.downloadUrl.startsWith('http')
IsHttpUrl(url) ==
    url \in {"https://example.org/m", "https://api2.skool.com/files/d", SignedUrl}

ExchangeOutcomes == {"url", "status", "empty", "throws"}

\* path.join(resourcesDir, sanitizeName(res.file_name || res.title))
ResPath(res) == <<"resources", sanitizeName(res.title)>>

\* The call in progress.
Res == output[1]

ResStep(r) ==
    /\ output' = <<r>>
    /\ UNCHANGED <<concurrency, lessonData, courseImageUrl, run, prev, input, alive,
                   main, schedVars, lessonVars, dl, assets, course, indexVars, calls>>

InitResources ==
    /\ Idle
    /\ input \in [resources : UpTo(LessonResources, MaxResources),
                  existing : SUBSET {ResPath(r) : r \in LessonResources}]
    /\ output = <<>>

\* extractLessonData has merged the resources and is at the loop over them.
FetchDownloadUrls ==
    /\ output = <<>>
    /\ ResStep([pc |-> IF Len(input.resources) > 0 THEN "exchange" ELSE "writeHtml",
                resources |-> input.resources, next |-> 1,
                exchanged |-> {}, failed |-> {},
                results |-> [i \in DOMAIN input.resources |-> "none"],
                fetched |-> {}, created |-> {}])

\* if (res.isExternal || (res.downloadUrl && startsWith('http')) || !res.file_id) continue
SkipsExchange(res) ==
    res.isExternal \/ (res.downloadUrl # "" /\ IsHttpUrl(res.downloadUrl)) \/ res.file_id = ""

\* RequestDownloadUrl with a failed exchange ending the loop.
RequestDownloadUrlOrStop ==
    /\ output # <<>>
    /\ Res.pc = "exchange"
    /\ Res.next <= Len(Res.resources)
    /\ LET i == Res.next
           res == Res.resources[i]
       IN  IF SkipsExchange(res)
             THEN ResStep([Res EXCEPT !.next = i + 1])
             ELSE \E outcome \in ExchangeOutcomes :
                    IF outcome = "url"
                      THEN ResStep([Res EXCEPT !.next = i + 1,
                                               !.exchanged = @ \cup {i},
                                               !.resources[i].downloadUrl = SignedUrl])
                      ELSE ResStep([Res EXCEPT !.next = Len(Res.resources) + 1,
                                               !.exchanged = @ \cup {i},
                                               !.failed = @ \cup {i}])

\* One turn of for (const res of resources): the exchange for a file of the
\* site; only `response.success && response.url` sets downloadUrl, every other
\* outcome is logged and the loop goes on.
RequestDownloadUrl ==
    /\ output # <<>>
    /\ Res.pc = "exchange"
    /\ Res.next <= Len(Res.resources)
    /\ LET i == Res.next
           res == Res.resources[i]
       IN  IF SkipsExchange(res)
             THEN ResStep([Res EXCEPT !.next = i + 1])
             ELSE \E outcome \in ExchangeOutcomes :
                    IF outcome = "url"
                      THEN ResStep([Res EXCEPT !.next = i + 1,
                                               !.exchanged = @ \cup {i},
                                               !.resources[i].downloadUrl = SignedUrl])
                      ELSE ResStep([Res EXCEPT !.next = i + 1,
                                               !.exchanged = @ \cup {i},
                                               !.failed = @ \cup {i}])

\* The resource task without the branch for external resources.
resTaskDownloadsAll(res) ==
    IF res.downloadUrl = "" THEN "null"
    ELSE IF ResPath(res) \in input.existing THEN "local"
    ELSE "downloading"

\* The resource task up to its first await: null without a URL, the outbound
\* link for an external resource, the local link for a file that is there with a
\* size above zero, and otherwise downloadAsset is called.
resTask(res) ==
    IF res.downloadUrl = "" THEN "null"
    ELSE IF res.isExternal THEN "external"
    ELSE IF ResPath(res) \in input.existing THEN "local"
    ELSE "downloading"

\* extractLessonData returns; the lesson task maps the resources to their tasks.
StartResTasks ==
    /\ output # <<>>
    /\ Res.pc = "exchange"
    /\ Res.next > Len(Res.resources)
    /\ LET results == [i \in DOMAIN Res.resources |-> resTask(Res.resources[i])] IN
       ResStep([Res EXCEPT !.pc = "tasks",
                           !.results = results,
                           !.fetched = {i \in DOMAIN results : results[i] = "downloading"}])

\* downloader.downloadAsset(res.downloadUrl, resPath) resolves with the file
\* written, or rejects and the catch of the task returns null.
DownloadAssetSettles(i) ==
    /\ output # <<>>
    /\ Res.pc = "tasks"
    /\ i \in DOMAIN Res.results
    /\ Res.results[i] = "downloading"
    /\ \E ok \in BOOLEAN :
          ResStep([Res EXCEPT !.results[i] = IF ok THEN "local" ELSE "null",
                              !.created = IF ok THEN @ \cup {i} ELSE @])

\* Promise.all(resTasks) resolves; the links that are not null go to the page.
ResTasksSettle ==
    /\ output # <<>>
    /\ Res.pc = "tasks"
    /\ \A i \in DOMAIN Res.results : Res.results[i] # "downloading"
    /\ ResStep([Res EXCEPT !.pc = "writeHtml"])

NextResources ==
    \/ FetchDownloadUrls
    \/ RequestDownloadUrl
    \/ StartResTasks
    \/ \E i \in 1..MaxResources : DownloadAssetSettles(i)
    \/ ResTasksSettle

SpecResources == InitResources /\ [][NextResources]_vars

----------------------------------------------------------------------------
(* Properties of the scheduler and of a course run (Spec) *)

\* Lesson tasks that have started and not yet finished.
Running == {l \in Lessons : task[l].pc \notin {"unstarted", "complete", "failed", "rejected"}}

\* C1: during runConcurrent(tasks, K) with N tasks, the number of lesson tasks that
\* have started and not yet finished is at every moment at most K and at most
\* min(K, N).
C1_AtMostKRunning ==
    /\ Cardinality(Running) <= concurrency
    /\ Cardinality(Running) <= workerCount

\* K = 2 tasks are running while a third has not been claimed yet.
C1_Witness ==
    /\ concurrency = 2
    /\ Cardinality(Running) = 2
    /\ \E l \in Lessons : task[l].pc = "unstarted"

\* C2: when runConcurrent has returned (downloadCourse is at the final index pass
\* or has returned its summary), every lesson task is in a terminal state: none is
\* running or unstarted.
C2_ReturnsAfterAllSettled ==
    main.pc \in {"finalIndex", "returned"} => \A l \in Lessons : Terminal(l)

\* The pool of two workers has returned after a run with a completed and a failed
\* lesson.
C2_Witness ==
    /\ main.pc = "returned"
    /\ concurrency = 2
    /\ completedLessons >= 1
    /\ failedLessons >= 1

\* C3: an exception raised while a lesson is processed is caught in that lesson's
\* task and reported through onLessonError; it never rejects the task, a worker or
\* downloadCourse, and when the scheduler has returned every lesson of the run has
\* been started and has reached its own terminal state.
C3_FailureStaysInTask ==
    /\ \A l \in Lessons : task[l].pc # "rejected"
    /\ \A w \in DOMAIN workers : workers[w].state # "rejected"
    /\ main.pc # "rejected"
    /\ \A l \in Lessons :
          FatalFault(l) \in calls.faults => task[l].pc = "failed" /\ l \in events.errored
    /\ main.pc \in {"finalIndex", "returned"} =>
          \A l \in Lessons : l \in events.started /\ Terminal(l)

\* The first lesson failed, and the lessons after it were started and completed.
C3_Witness ==
    /\ main.pc = "returned"
    /\ FatalFault(1) \in calls.faults
    /\ \A l \in Lessons \ {1} : task[l].pc = "complete"

\* The only thing that failed in the run is the video acquisition of lesson l.
OnlyVideoFails(l) == calls.faults = {VideoFault(l)}

\* The index pass has linked every lesson of the course.
IndexLinksAll == Exists(course.index) /\ Content(course.index) = Lessons

\* C9 as stated: in a run of N lessons in which only the video acquisition of one
\* lesson fails, the summary counts N-1 lessons complete and 1 failed, the index
\* links all N lesson pages and the failing lesson's page has no video element.
C9_OneFailedInSummary ==
    \A l \in Lessons :
        (main.pc = "returned" /\ OnlyVideoFails(l)) =>
            /\ completedLessons = Len(lessonData) - 1
            /\ failedLessons = 1
            /\ IndexLinksAll
            /\ Content(files[l].page).video = FALSE

\* C9 amended: in such a run the summary counts all N lessons complete and none
\* failed; the index links all N lesson pages, and the page and the manifest of
\* the lesson whose video failed carry no video.
C9_VideoFailureStillCompletes ==
    \A l \in Lessons :
        (main.pc = "returned" /\ OnlyVideoFails(l)) =>
            /\ completedLessons = Len(lessonData)
            /\ failedLessons = 0
            /\ IndexLinksAll
            /\ Content(files[l].page).video = FALSE
            /\ Content(files[l].manifest).hasVideo = FALSE

\* A run has returned in which the video of lesson 2, and nothing else, failed.
C9_Witness == main.pc = "returned" /\ OnlyVideoFails(2)

\* The gated pass in progress is the final pass: the last one enqueued.
FinalPassScanned ==
    main.pc = "finalIndex" /\ queue = 0 /\ pass["gate"].state = "scanned"

\* C11: the final index pass starts only after every lesson task is terminal and
\* every pass enqueued before it has ended, so its scan finds every lesson page of
\* the run; when downloadCourse returns, index.html is the output of that pass and
\* links every lesson completed in the run.
C11_FinalPassSeesEveryLesson ==
    /\ FinalPassScanned =>
          /\ \A l \in Lessons : Terminal(l)
          /\ pass["gate"].snap = Snapshot
          /\ events.completed \subseteq pass["gate"].snap
    /\ main.pc = "returned" =>
          /\ Exists(course.index)
          /\ Content(course.index) = Snapshot
          /\ events.completed \subseteq Content(course.index)

\* A run of two workers has returned with every lesson completed and linked.
C11_Witness ==
    /\ main.pc = "returned"
    /\ concurrency = 2
    /\ events.completed = Lessons
    /\ Content(course.index) = Lessons

\* C20: with K = 1 the tasks run one at a time in list order: at most one
\* lesson task is running, and a lesson task has started only if every
\* lesson before it in the list has finished.
C20_SequentialWhenOne ==
    concurrency = 1 =>
        /\ Cardinality(Running) <= 1
        /\ \A l \in Lessons :
               task[l].pc # "unstarted" => \A k \in 1..(l - 1) : TaskSettled(k)

C20_Witness ==
    /\ concurrency = 1
    /\ Len(lessonData) > 2
    /\ 2 \in Running
    /\ TaskSettled(1)
    /\ task[3].pc = "unstarted"

\* The tasks the pool has claimed so far: index counts the claims, the ones
\* past the end of the list included.
Claimed == 1..Min(index, Len(lessonData))

\* The workers that hold task l as their current one.
Holders(l) ==
    {w \in 1..workerCount : workers[w].state = "running" /\ workers[w].current = l}

\* C22: in the pool every task is claimed exactly once and in list order: the
\* started tasks are the first tasks of the list up to the shared cursor, a
\* task that is started and not yet settled is held by exactly one worker, no
\* two workers hold the same task, and when the pool has settled every task
\* has been started.
C22_EachTaskClaimedOnce ==
    index > 0 =>
        /\ \A l \in Lessons : task[l].pc # "unstarted" <=> l \in Claimed
        /\ events.started = Claimed
        /\ \A l \in Claimed : ~TaskSettled(l) => Cardinality(Holders(l)) = 1
        /\ \A l \in Lessons : Cardinality(Holders(l)) <= 1
        /\ main.pc # "pool" => Claimed = Lessons

C22_Witness ==
    /\ main.pc = "pool"
    /\ concurrency = 2
    /\ Claimed = Lessons
    /\ Len(lessonData) > 2
    /\ Cardinality(Holders(2)) = 1
    /\ Cardinality(Holders(3)) = 1

\* The lesson tasks that ended in the outer catch.
FailedTasks == {l \in Lessons : task[l].pc = "failed"}

\* The step in which the task of lesson l ends in the outer catch.
Fails(l) == task[l].pc # "failed" /\ task'[l].pc = "failed"

\* C29: a lesson task that fails before its manifest is written leaves no
\* lesson.json for the lesson, enqueues no index pass, is counted once in
\* failedLessons and reported once through onLessonError, and is not counted
\* or reported as completed.
C29_FatalFailureCountedOnce ==
    /\ [](\A l \in FailedTasks :
             /\ ~Exists(files[l].manifest)
             /\ l \in events.errored
             /\ l \notin events.completed)
    /\ [](failedLessons = Cardinality(FailedTasks) /\ events.errored = FailedTasks)
    /\ [][\A l \in Lessons :
             Fails(l) =>
                 /\ queue' = queue
                 /\ failedLessons' = failedLessons + 1
                 /\ completedLessons' = completedLessons
                 /\ l \notin events.errored
                 /\ files'[l].manifest = files[l].manifest]_vars

\* A run has returned in which lesson 2 failed after its page was written.
C29_Witness ==
    /\ main.pc = "returned"
    /\ task[2].pc = "failed"
    /\ Exists(files[2].page)
    /\ failedLessons = 1

----------------------------------------------------------------------------
(* Properties of the index gate under signals (SpecShutdown) *)

\* C4: at no time are two regenerateIndex passes over the course directory in
\* progress at once, whether enqueued by a lesson, the final pass or started by
\* the shutdown handler.
C4_OnePassAtATime ==
    \A p, q \in PassIds : (InProgress(p) /\ InProgress(q)) => p = q

\* C12: whoever reads index.html, .course.json or a lesson.json at any moment
\* finds a complete file, the previous one or the new one, never a partially
\* written, truncated or mixed one, also while several regenerations of the same
\* index are under way.
C12_NeverTruncated ==
    /\ Exists(course.index) => Whole(course.index)
    /\ Exists(course.manifest) => Whole(course.manifest)
    /\ \A l \in Lessons : Exists(files[l].manifest) => Whole(files[l].manifest)

\* The shutdown passes started so far: one by every signal whose handler fired.
ShutdownPasses == signals

\* C14: when SIGINT or SIGTERM arrive during a run with an active output
\* directory, the shutdown handler runs exactly one regenerateIndex pass over it,
\* also if both signals arrive, and no in-flight download is cancelled by it.
C14_OneShutdownPass ==
    /\ Cardinality(ShutdownPasses) <= 1
    /\ \A sig \in SigNames : InProgress(sig) => sig \in signals

\* The step in which pass p reads the course directory.
Scans(p) == pass[p].state = "idle" /\ pass'[p].state = "scanned"

\* downloadCourse between the registration of the shutdown handlers and the end
\* of writeAtomicJson(.course.json).
BeforeCourseManifest == main.pc \in {"cover", "courseTmp", "courseMove"}

\* .course.json is written at most once, into a directory that did not hold it,
\* and is on disk when a lesson task has started.
CourseManifestWrittenFirst ==
    /\ [][course'.manifest # course.manifest =>
             ~Exists(course.manifest) /\ Exists(course'.manifest)]_vars
    /\ [](events.started # {} => Exists(course.manifest))

\* C30 as stated: .course.json is written exactly once, before the first lesson
\* task starts, and every index pass of the run, a shutdown pass included, finds
\* it on disk.
C30_EveryPassFindsCourseManifest ==
    /\ CourseManifestWrittenFirst
    /\ [][\A p \in PassIds : Scans(p) => Exists(course.manifest)]_vars

\* C30, amended: .course.json is written exactly once, before the first lesson
\* task starts, and every gated index pass finds it on disk; a shutdown pass finds
\* it unless its signal arrives before writeAtomicJson(.course.json) has ended.
C30_GatedPassFindsCourseManifest ==
    /\ CourseManifestWrittenFirst
    /\ [][/\ Scans("gate") => Exists(course.manifest)
          /\ \A sig \in SigNames :
                Scans(sig) => (Exists(course.manifest) <=> ~BeforeCourseManifest)]_vars

\* A signal has arrived while a lesson task was running and its pass has read the
\* directory, .course.json included.
C30_Witness ==
    /\ \E sig \in SigNames : pass[sig].state = "scanned"
    /\ \E l \in Lessons : task[l].pc \notin {"unstarted", "complete", "failed"}
    /\ Exists(course.manifest)

----------------------------------------------------------------------------
(* Properties of a run in which index passes fail (SpecIndexFault) *)

\* C13: a regenerateIndex pass that fails, enqueued by a lesson task or run as the
\* final pass, is swallowed: no lesson is counted as failed for it, downloadCourse
\* does not reject and the process is not terminated.
C13_IndexFailureSwallowed ==
    IndexFault \in calls.faults =>
        /\ failedLessons = Cardinality(events.errored)
        /\ \A l \in events.errored : FatalFault(l) \in calls.faults
        /\ main.pc # "rejected"
        /\ alive

----------------------------------------------------------------------------
(* Properties of the structural checks (SpecStructural) *)

\* Nothing has been created, downloaded or started.
NoTrace ==
    /\ course = NoCourse
    /\ \A l \in DOMAIN files : files[l] = NoFiles
    /\ \A p \in DOMAIN assets : assets[p] = "absent"
    /\ events.started = {}
    /\ calls.http = 0 /\ \A l \in DOMAIN calls.tool : calls.tool[l] = 0
    /\ queue = 0 /\ \A p \in PassIds : ~InProgress(p)

\* C16: if the parsed course tree has no modules, or the requested lesson id is not
\* in the tree, downloadCourse fails at once with an error, and no output
\* directory, manifest, index or lesson file is created, nothing is downloaded and
\* no lesson task starts.
C16_StructuralErrorLeavesNoTrace ==
    (input # <<>> /\ StructuralError(input.tree, input.target)) =>
        /\ main.pc \in {"parse", "rejected"}
        /\ NoTrace

\* downloadCourse has thrown for a lesson id that is not in a tree of two lessons.
C16_Witness ==
    /\ input # <<>>
    /\ main.pc = "rejected"
    /\ Len(input.tree) = 2
    /\ input.target = 3

----------------------------------------------------------------------------
(* Properties of the index page (SpecOrder) *)

\* The modules of the disk that have a lesson page.
WithPages(disk) ==
    {disk.entries[i].module : i \in {j \in DOMAIN disk.entries : disk.entries[j].lessons # "empty"}}

\* C15: whatever order readdir returns the directories in, and with or without
\* lesson manifests, regenerateIndex lists the module sections in ascending module
\* index order, one section for every module that has a lesson page.
C15_SectionsAscending ==
    output # <<>> =>
        /\ \A i, j \in DOMAIN output : i < j => output[i].index < output[j].index
        /\ {output[i].title : i \in DOMAIN output} = WithPages(input)
        /\ \A i \in DOMAIN output : output[i].index = output[i].title

\* The page of a three-module course with .course.json, read in descending order.
C15_Witness ==
    /\ Len(output) = 3
    /\ Len(input.modules) = 3
    /\ input.entries[1].prefix = 3
    /\ input.entries[3].prefix = 1

----------------------------------------------------------------------------
(* Properties of the video link of a lesson (SpecVideoLink) *)

\* The page data holds a video object of the lesson's video with both fields.
HoldsMatchingVideo(page) ==
    \E v \in {page.video, page.courseVideo} :
        /\ v.present
        /\ v.id = page.videoId
        /\ v.playbackId # ""
        /\ v.playbackToken # ""

\* C17: once the play control was triggered and all 10 polls found no
\* manifest URL, if the page data holds a video object whose id is the
\* lesson's video id and which carries a playback id and a playback token,
\* the video link of the lesson is exactly
\* https://stream.video.skool.com/<playbackId>.m3u8?token=<playbackToken>.
C17_FallbackLinkIsTemplate ==
    (/\ Extracting("done")
     /\ Extraction.clicked
     /\ Extraction.attempts = PollAttempts
     /\ HoldsMatchingVideo(input)) =>
        \E v \in {input.video, input.courseVideo} :
            /\ v.present
            /\ v.id = input.videoId
            /\ Extraction.vLink = HlsUrl(v)

\* Only the video id of the provider is known: no direct link in the metadata.
NativeIdOnly == input.videoLink = NoLink /\ input.videoId # ""

\* C23: when only the video id is known and the play control is absent or
\* the click on it raises an error, the reconstruction from the page data is
\* still attempted, and yields the video link when the page data matches.
C23_NoTriggerStillReconstructs ==
    (/\ Extracting("done")
     /\ NativeIdOnly
     /\ ~Extraction.clicked) =>
        /\ Extraction.fallback
        /\ Reconstructable(input) => Extraction.vLink = HlsUrl(VideoData(input))

\* The probes that returned a URL.
Hits == {i \in DOMAIN Extraction.probes : ProbeResult(Extraction.probes[i]) # NoLink}

\* C24: after the click the page is probed at most 10 times; the first probe
\* that returns a URL is the last one, the link is that URL (the resource
\* entry before the video element), and the reconstruction is not entered; it
\* is entered only after 10 probes without a URL.
C24_PollingStopsAtFirstHit ==
    (input # <<>> /\ output # <<>> /\ Extraction.clicked) =>
        /\ Len(Extraction.probes) <= PollAttempts
        /\ \A i \in Hits :
               /\ i = Len(Extraction.probes)
               /\ Extraction.vLink = ProbeResult(Extraction.probes[i])
               /\ Extraction.probes[i] = "both" => Extraction.vLink = ManifestUrl
               /\ ~Extraction.fallback
               /\ Extraction.pc # "poll"
        /\ Extraction.fallback =>
               /\ Len(Extraction.probes) = PollAttempts
               /\ Hits = {}

C24_Witness ==
    /\ Extracting("done")
    /\ Extraction.clicked
    /\ Len(Extraction.probes) = 3
    /\ Extraction.probes[3] = "both"
    /\ Extraction.vLink = ManifestUrl

----------------------------------------------------------------------------
(* Properties of a lesson whose video link is not found (SpecUnresolved) *)

\* extractLessonData has returned for a lesson of which only the video id is
\* known, and neither the polls nor the page data gave a link.
Unresolved == Extracting("done") /\ NativeIdOnly /\ Extraction.vLink = NoLink

\* C25: when neither polling nor reconstruction yields a URL, the lesson goes
\* on without a video link: the video tool is not invoked for it, its page and
\* its manifest are written without video, and unless something else fails the
\* lesson is completed and not counted as failed.
C25_UnresolvedLessonCompletes ==
    \A l \in Lessons :
        (Unresolved /\ task[l].pc \notin {"unstarted", "ensureDir", "extract"}) =>
            /\ calls.tool[l] = 0
            /\ Exists(files[l].page) => Content(files[l].page).video = FALSE
            /\ Exists(files[l].manifest) => Content(files[l].manifest).hasVideo = FALSE
            /\ FatalFault(l) \notin calls.faults =>
                   /\ task[l].pc # "failed"
                   /\ failedLessons = 0
                   /\ main.pc = "returned" =>
                          /\ completedLessons = Len(lessonData)
                          /\ Exists(files[l].manifest)

\* A run has returned whose lesson stayed without link after 10 polls and a
\* reconstruction that found no matching page data.
C25_Witness ==
    /\ Unresolved
    /\ main.pc = "returned"
    /\ Extraction.fallback
    /\ Len(Extraction.probes) = PollAttempts
    /\ completedLessons = 1

----------------------------------------------------------------------------
(* Properties of the resources of a lesson (SpecMerge) *)

Merged == input # <<>> /\ output # <<>> /\ Merge.next > Len(input.dom)

\* No two resources of the metadata have the same title after normalization.
DistinctMetadataTitles ==
    \A i, j \in DOMAIN input.meta :
        Trim(input.meta[i].title) = Trim(input.meta[j].title) => i = j

\* C18: a DOM-scanned resource is added to the resources of the metadata only
\* if no entry of the list has the same normalized title: when the title of a
\* DOM resource collides with the title of a metadata resource, the merged
\* list has exactly one entry of that title, with the URL of the metadata.
C18_MetadataWinsCollision ==
    (Merged /\ DistinctMetadataTitles) =>
        \A i \in DOMAIN input.meta, j \in DOMAIN input.dom :
            DomTitle(input.dom[j]) = Trim(input.meta[i].title) =>
                /\ Cardinality({k \in DOMAIN Merge.resources :
                       Trim(Merge.resources[k].title) = Trim(input.meta[i].title)}) = 1
                /\ \E k \in DOMAIN Merge.resources :
                       /\ Trim(Merge.resources[k].title) = Trim(input.meta[i].title)
                       /\ Merge.resources[k].downloadUrl
                              = NormalizeResource(input.meta[i]).downloadUrl

----------------------------------------------------------------------------
(* Properties of the bound of the scheduler (SpecConcurrency) *)

Normalized == input # <<>> /\ output # <<>> /\ Bound.pc = "normalized"

\* The number in 1..16 nearest to twice / 2, doubled.
Clamped(twice) ==
    IF twice < 2 THEN 2
    ELSE IF twice > 2 * MAX_CONCURRENCY THEN 2 * MAX_CONCURRENCY
    ELSE twice

\* C19 as stated: K is 8 when no bound is given, otherwise the requested
\* bound clamped to [1, 16]; K is always an integer of 1..16.
C19_ClampedToRange ==
    Normalized =>
        /\ Bound.k \in 1..MAX_CONCURRENCY
        /\ ~input.given => Bound.k = DEFAULT_CONCURRENCY
        /\ (input.given /\ Bound.value.kind = "num") =>
               2 * Bound.k = Clamped(Bound.value.twice)

\* C19, amended: K is 8 when no bound is given or when the given one is not
\* a finite number or is below 1; otherwise it is the integer part of the
\* given bound, capped at 16.  K is always an integer of 1..16.
C19_DefaultOrCapped ==
    Normalized =>
        /\ Bound.k \in 1..MAX_CONCURRENCY
        /\ ~input.given => Bound.k = DEFAULT_CONCURRENCY
        /\ (input.given /\ input.value.kind # "num") => Bound.k = DEFAULT_CONCURRENCY
        /\ (input.given /\ input.value.kind = "num") =>
               /\ input.value.twice < 2 => Bound.k = DEFAULT_CONCURRENCY
               /\ input.value.twice >= 2 =>
                      /\ 2 * Bound.k <= input.value.twice
                      /\ \/ input.value.twice < 2 * Bound.k + 2
                         \/ Bound.k = MAX_CONCURRENCY

C19_Witness ==
    /\ Normalized
    /\ input.given
    /\ input.value.kind = "num"
    /\ input.value.twice <= 0
    /\ Bound.k = DEFAULT_CONCURRENCY

----------------------------------------------------------------------------
(* Properties of the index of an edited directory (SpecScan) *)

\* regenerateIndex has written the page.
Scanned == input # <<>> /\ output # <<>> /\ ~output[1].threw

PageSections == {output[1].sections[i] : i \in DOMAIN output[1].sections}

PageLessons == UNION {{s.lessons[j] : j \in DOMAIN s.lessons} : s \in PageSections}

\* C21: every lesson link of the page regenerateIndex writes points to an
\* index.html that exists at that relative path under the course directory,
\* also after lesson or module directories were moved or renamed by hand.
C21_LinksPointToPages ==
    Scanned => \A lesson \in PageLessons : HasPage(input.lessons[lesson.path])

\* A lesson of the page with the values of the lesson.json of directory p.
FromManifest(lesson, p) ==
    LET manifest == ManifestOnDisk(input.lessons[p].m, input.lessons[p].l) IN
    /\ lesson.title = manifest.title
    /\ lesson.index = manifest.lessonIndex
    /\ lesson.path = manifest.relativePath

\* A lesson of the page with the values derived from the name of directory p.
FromDirectory(lesson, p) ==
    /\ lesson.title = p[2].rest
    /\ lesson.index = NameNumber(p[2])
    /\ lesson.path = p

\* C27: a pass of regenerateIndex never fails because of a manifest: it writes
\* the page whether .course.json and the lesson.json files are missing,
\* unreadable or readable, and every lesson directory with a page is listed
\* with the title, index and relative path of its lesson.json when that is
\* readable, and with the values derived from its directory name otherwise.
C27_ManifestOrDirectory ==
    (input # <<>> /\ output # <<>>) =>
        /\ ~output[1].threw
        /\ \A p \in RelativePaths :
               HasPage(input.lessons[p]) =>
                   \E lesson \in PageLessons :
                       IF input.lessons[p].state = "manifest"
                         THEN FromManifest(lesson, p)
                         ELSE FromDirectory(lesson, p)

C27_Witness ==
    /\ Scanned
    /\ input.course = "unreadable"
    /\ \E p, q, r \in RelativePaths :
          /\ input.lessons[p].state = "unreadable"
          /\ input.lessons[q].state = "manifest"
          /\ input.lessons[r].state = "page"

\* The modules of .course.json whose directory holds a lesson page, in the
\* order of .course.json.
ListedModules ==
    SelectSeq(CourseModules,
              LAMBDA m : \E l \in LessonNames : HasPage(input.lessons[<<m.moduleDirName, l>>]))

\* C26: when .course.json is present, the module sections of the page are in
\* the order of its modules and carry the module titles it records, whatever
\* the directory names give.
C26_CourseManifestDecides ==
    (/\ Scanned
     /\ input.course = "readable"
     /\ \A l \in LessonNames, a \in HandNames : ~HasPage(input.lessons[<<a, l>>])) =>
        /\ Len(output[1].sections) = Len(ListedModules)
        /\ \A i \in DOMAIN output[1].sections :
               output[1].sections[i].title = ListedModules[i].title

----------------------------------------------------------------------------
(* Properties of the image filenames (SpecImages) *)

\* C28: distinct image URLs of a lesson get distinct local filenames: no two
\* tasks of localizeImages with different URLs have the same destination path
\* (and one URL always gets the same filename).
C28_DistinctUrlsDistinctFiles ==
    output # <<>> =>
        \A i, j \in DOMAIN Localizing.tasks :
            /\ Localizing.tasks[i].url # Localizing.tasks[j].url =>
                   Localizing.tasks[i].outputPath # Localizing.tasks[j].outputPath
            /\ Localizing.tasks[i].url = Localizing.tasks[j].url =>
                   Localizing.tasks[i].outputPath = Localizing.tasks[j].outputPath

----------------------------------------------------------------------------
(* Properties of the course tree and of the lesson directories (SpecTree) *)

\* The lesson tasks have been pushed.
Pushed == output # <<>> /\ Tree.pc = "tasks"

\* C33: no two lesson tasks of a run have the same lesson directory: distinct
\* lessons of the course tree get distinct (moduleDirName, lessonDirName) pairs.
C33_LessonDirsDistinct ==
    Pushed =>
        \A i, j \in DOMAIN Tree.tasks :
            i # j => <<Tree.tasks[i].moduleDirName, Tree.tasks[i].lessonDirName>>
                       # <<Tree.tasks[j].moduleDirName, Tree.tasks[j].lessonDirName>>

\* Four tasks are pushed, two of them for lessons of one module whose titles are
\* the same once sanitized.
C33_Witness ==
    /\ Pushed
    /\ Len(Tree.tasks) = 4
    /\ \E i, j \in DOMAIN Tree.tasks :
          /\ i # j
          /\ Tree.tasks[i].moduleDirName = Tree.tasks[j].moduleDirName
          /\ Tail(Tree.tasks[i].lessonDirName) = Tail(Tree.tasks[j].lessonDirName)

\* C34: the module indices of the tree parseClassroom returns are unique and
\* dense: for a tree of N modules they are exactly 1..N, whatever the page data,
\* sets without a lesson included.
C34_ModuleIndicesDense ==
    output # <<>> /\ Tree.pc = "parsed" =>
        {Tree.modules[i].index : i \in DOMAIN Tree.modules} = 1..Len(Tree.modules)

\* C40: a single-lesson run into a directory that holds the .course.json of a run
\* over the whole course leaves the module list of that file as it was.
C40_SingleLessonKeepsModules ==
    output # <<>> /\ Tree.pc \in {"written", "tasks"} /\ input.rerun /\ input.target # 0 =>
        Tree.courseJson = CourseJson(parseClassroom(input.sets))

----------------------------------------------------------------------------
(* Properties of the counters of a run with throwing callbacks (SpecCallbacks) *)

\* C35: when downloadCourse returns, completedLessons + failedLessons is the
\* number of lessons, and for every lesson exactly one of onLessonComplete and
\* onLessonError was called, after its onLessonStart, whatever the callbacks do.
C35_EveryLessonCountedOnce ==
    main.pc = "returned" =>
        /\ completedLessons + failedLessons = Len(lessonData)
        /\ \A l \in Lessons :
              /\ l \in events.started
              /\ (l \in events.completed) # (l \in events.errored)

----------------------------------------------------------------------------
(* Properties of termination (SpecStream) *)

\* C38: every downloadAsset call eventually resolves or rejects, also when the
\* response stream fails or stalls after the headers, so every lesson task
\* reaches a terminal state and downloadCourse eventually returns.
C38_EventuallyReturns ==
    /\ \A p \in {CoverPath, ImagePath(1), ResourcePath(1)} :
          (dl[p] \notin {"idle", "resolved", "rejected"}) ~> Settled(p)
    /\ <>Terminal(1)
    /\ <>(main.pc = "returned")

----------------------------------------------------------------------------
(* Properties of the setup of the video tool (SpecSetup) *)

\* C39: however many workers call downloadVideo before the video tool is set
\* up, the setup (presence check and download) runs at most once, and no worker
\* invokes the tool before the setup has finished.
C39_SetupRunsOnce ==
    /\ Setup.setups <= 1
    /\ \A w \in Callers :
          Setup.callers[w] \in {"ensureDir", "tool", "done"} =>
              /\ Setup.ytDlp
              /\ \A v \in Callers : Setup.callers[v] # "setup"

\* The binary had to be downloaded, which was done once, and every worker has
\* invoked the tool since.
C39_Witness ==
    /\ ~input.binary
    /\ Setup.setups = 1
    /\ Setup.initPromise = "resolved"
    /\ \A w \in Callers : Setup.callers[w] \in {"tool", "done"}
    /\ \E w \in Callers : Setup.callers[w] = "tool"

----------------------------------------------------------------------------
(* Properties of the downloads of one lesson (SpecWriters) *)

\* A downloadAsset call that holds a write stream open on its destination.
HoldsWriter(i) == Downloads.pcs[i] \in {"request", "streaming"}

\* C36: within one lesson no two downloadAsset calls that run at the same time
\* write to the same destination path, also when one image URL occurs more than
\* once in the content.
C36_OneWriterPerPath ==
    Len(output) = 2 =>
        \A i, j \in DOMAIN Downloads.pcs :
            (i # j /\ HoldsWriter(i) /\ HoldsWriter(j)) => OutputPath(i) # OutputPath(j)

----------------------------------------------------------------------------
(* Properties of the resources of a lesson (SpecResources) *)

\* The resource step of the lesson task is over and the page is next.
ResourcesDone == output # <<>> /\ Res.pc = "writeHtml"

\* C31: a file of the site whose exchange for a download URL answers with a
\* non-success response or throws is left without a download URL and is omitted
\* from the lesson (no download, no link); the exchange still goes on for the
\* resources after it, and the lesson task goes on to its page.
C31_FailedExchangeOmitsResource ==
    output # <<>> =>
        /\ \A i \in Res.failed :
              /\ Res.resources[i].downloadUrl = ""
              /\ i \notin Res.fetched
              /\ Res.pc \in {"tasks", "writeHtml"} => Res.results[i] = "null"
        /\ Res.pc \in {"tasks", "writeHtml"} =>
              \A j \in DOMAIN Res.resources :
                  ~SkipsExchange(input.resources[j]) => j \in Res.exchanged

\* The exchange failed for the first resource and gave a URL for the second, which
\* was downloaded, and the task is at the page.
C31_Witness ==
    /\ ResourcesDone
    /\ 1 \in Res.failed
    /\ 2 \in Res.exchanged \ Res.failed
    /\ Res.results[2] = "local"
    /\ 2 \in Res.created

\* C32: a resource flagged external is never the subject of an exchange and is
\* never passed to downloadAsset, no file is created for it under resources/, and
\* the page has it as an outbound link only.
C32_ExternalOnlyLinked ==
    output # <<>> =>
        \A i \in DOMAIN Res.resources :
            Res.resources[i].isExternal =>
                /\ i \notin Res.exchanged
                /\ i \notin Res.fetched
                /\ i \notin Res.created
                /\ Res.pc \in {"tasks", "writeHtml"} => Res.results[i] = "external"

\* A lesson with a link and a file found in the page: the file was downloaded,
\* the link was not, and the task is at the page.
C32_Witness ==
    /\ ResourcesDone
    /\ \E i, j \in DOMAIN Res.resources :
          /\ Res.resources[i].isExternal
          /\ Res.results[i] = "external"
          /\ ~Res.resources[j].isExternal
          /\ j \in Res.created

----------------------------------------------------------------------------
(* Properties of two runs over one directory (SpecRerun) *)

\* m is the manifest p but for its updatedAt.
SameButUpdatedAt(m, p) == Exists(m) /\ Exists(p) /\ [Content(m) EXCEPT !.updatedAt = "first"] = Content(p)

\* The manifests this run has written equal those the first run left.
ManifestsAsBefore ==
    /\ (Exists(course.manifest) /\ Content(course.manifest).updatedAt = run) =>
          SameButUpdatedAt(course.manifest, prev.course)
    /\ \A l \in Lessons :
          (Exists(files[l].manifest) /\ Content(files[l].manifest).updatedAt = run) =>
              SameButUpdatedAt(files[l].manifest, prev.lessons[l])

\* The second run has downloaded nothing.
NoDownloads == calls.http = 0 /\ \A l \in Lessons : calls.tool[l] = 0

\* No image, attachment or cover of the course is a zero-length file.
NoEmptyRemote == \A p \in Paths : RemoteAt(p) # "empty"

\* C5 as stated: in a second run after a first run that returned with no failed
\* lesson, the video tool is never invoked, no asset is requested over HTTP, and
\* the manifests written equal those of the first run except for updatedAt.
C5_SecondRunDownloadsNothing ==
    (run = "second" /\ prev.returned /\ prev.failed = 0) =>
        /\ NoDownloads
        /\ calls.faults = {} => ManifestsAsBefore

\* C5 amended: if in the first run nothing failed, no video, image, attachment or
\* cover download either, and no remote asset is a zero-length file, then the second
\* run never invokes the video tool and requests no asset over HTTP; and as long as
\* nothing fails in the second run, the manifests it writes equal those of the first
\* run except for updatedAt.
C5_SecondRunAfterFaultlessRun ==
    (run = "second" /\ prev.returned /\ prev.faultless /\ NoEmptyRemote) =>
        /\ NoDownloads
        /\ calls.faults = {} => ManifestsAsBefore

\* A faultless second run has returned after a faultless first run of a course
\* with a cover, a video, an image and an attachment.
C5_Witness ==
    /\ run = "second"
    /\ prev.returned /\ prev.faultless /\ NoEmptyRemote
    /\ courseImageUrl = "data"
    /\ main.pc = "returned"
    /\ calls.faults = {}
    /\ Content(files[1].manifest).updatedAt = "second"
    /\ Content(files[1].manifest).hasVideo

\* C6: if the first run left a lesson's video.mp4 with non-zero size and no
\* lesson.json, the next run never invokes the video tool for that lesson, and it
\* writes the lesson's lesson.json: a run that has returned has written it unless
\* the lesson's task failed in that run.
C6_ResumeWithoutTool ==
    \A l \in Lessons :
        (run = "second" /\ l \in prev.videoOnly) =>
            /\ calls.tool[l] = 0
            /\ (alive /\ main.pc = "returned" /\ FatalFault(l) \notin calls.faults) =>
                  /\ Exists(files[l].manifest)
                  /\ Content(files[l].manifest).updatedAt = "second"

\* The second run found video.mp4 without lesson.json and has completed the lesson.
C6_Witness ==
    /\ run = "second"
    /\ 1 \in prev.videoOnly
    /\ main.pc = "returned"
    /\ task[1].pc = "complete"
    /\ Content(files[1].manifest).hasVideo

\* No downloadAsset call is writing to path p.
NoTransfer(p) == ~alive \/ dl[p] \in {"idle", "resolved", "rejected"}

\* C7: a file that is at the final path of an image, attachment or cover with
\* non-zero size, while no download is writing to it, is the complete result of a
\* successful download.
C7_NonZeroIsComplete ==
    \A p \in Paths : (NoTransfer(p) /\ NonZero(assets[p])) => assets[p] = "full"

\* The downloads of lesson l are not in flight.
LessonDownloadsDone(l) == dl[ImagePath(l)] = "idle" /\ dl[ResourcePath(l)] = "idle"

\* The manifest of lesson l was written by the current run.
ManifestOfThisRun(l) ==
    Exists(files[l].manifest) /\ Content(files[l].manifest).updatedAt = run

\* The step in which the lesson.json of lesson l is put in place.
WritesManifest(l) == files'[l].manifest # files[l].manifest

\* C37: whenever a LessonManifest is written, its hasVideo is true if and only if
\* video.mp4 is in the lesson directory with a size above zero at that moment,
\* and the lesson page has the video element under the same condition, in a
\* first run and in a rerun.
C37_HasVideoIffVideoFile ==
    [][\A l \in Lessons :
          WritesManifest(l) =>
              /\ Content(files'[l].manifest).hasVideo = NonZero(files[l].video)
              /\ Content(files[l].page).video = NonZero(files[l].video)]_vars

\* C8: lesson.json is written last.  When the task is at the manifest write, and
\* whenever the run has written lesson.json or its temporary file, image
\* localization, the video step and the resource downloads of the lesson are over
\* and the lesson's index.html exists, and it is the page the manifest describes.
C8_ManifestWrittenLast ==
    \A l \in Lessons :
        /\ (task[l].pc \in {"manifestTmp", "manifestMove"} \/ ManifestOfThisRun(l)) =>
              /\ Exists(files[l].page)
              /\ alive => LessonDownloadsDone(l)
        /\ (Exists(files[l].tmp) \/ Exists(files[l].manifest)) => Exists(files[l].page)
        /\ ManifestOfThisRun(l) =>
              /\ Content(files[l].page).video = Content(files[l].manifest).hasVideo
              /\ Content(files[l].page).resources = Content(files[l].manifest).resourcesCount

\* A lesson with an image, a video and an attachment has completed in the first run.
C8_Witness ==
    /\ run = "first"
    /\ task[1].pc = "complete"
    /\ ManifestOfThisRun(1)
    /\ Content(files[1].manifest).hasVideo
    /\ Content(files[1].manifest).resourcesCount = 1

\* The failures a lesson recovers from: its video, its image, its attachment.
SoftFaults(l) == {VideoFault(l), ImagePath(l), ResourcePath(l)}

TypeOK ==
    /\ index \in 0..(Len(lessonData) + MaxWorkers)
    /\ completedLessons + failedLessons <= Len(lessonData)

====
